---- MODULE Spec2Model ----
(***************************************************************************)
(* Model of summarize.py: the per-article extraction pipeline              *)
(* (chunk -> primary model per chunk -> parse -> fallback -> score ->      *)
(* select), its model client and its reply parser.                         *)
(*                                                                         *)
(* Text is a sequence of one-character strings, so that stripping,         *)
(* slicing, substring search and the parser's regular expressions are      *)
(* computed character by character as the Python code computes them.       *)
(***************************************************************************)
EXTENDS Integers, Sequences, FiniteSets, TLC

VARIABLES
    art,         \* the ArticleInput being processed (index into Articles)
    pc,          \* position in extract_single_use_case_for_article
    i,           \* loop index of for i, chunk in enumerate(chunks)
    candidates,  \* the list candidates
    lastCall,    \* the most recent call_openrouter_model invocation
    calls,       \* the model calls of the run so far, in order: model and returned value
    result,      \* return value of the run: <<>> is None, <<r>> is the record r
    reply,       \* parser harness: the text handed to parse_labelled_output
    parsed,      \* parser harness: what parse_labelled_output returned
    ck_arg,      \* chunk_text_by_chars: the argument text
    ck_size,     \* chunk_text_by_chars: the argument chunk_size
    ck_text,     \* chunk_text_by_chars: the local text after text = text.strip()
    ck_start,    \* chunk_text_by_chars: the local start
    ck_chunks,   \* chunk_text_by_chars: the list chunks (the returned list at the end)
    ck_windows,  \* chunk_text_by_chars: the pairs <<start, end>> the loop has cut so far
    feed_idx,    \* main: index into FEEDS of the feed the outer loop is at
    feed,        \* main: feed.entries of the feed fetched last
    entry_idx,   \* main: index of the entry the inner loop is at
    seen,        \* main: the set seen
    model_log,   \* main: the model calls made so far, each with the URL it was made for
    sink_log,    \* main: the requests add_to_notion has posted so far
    handled,     \* main: the entries the inner loop has taken up so far, each with what became of it
    fetched      \* main: what feedparser.parse gave for each feed so far

article_vars == <<art, pc, i, candidates, calls, lastCall, result, reply, parsed>>

article_vars_but_pc == <<art, i, candidates, calls, lastCall, result, reply, parsed>>

chunker_vars == <<ck_arg, ck_size, ck_text, ck_start, ck_chunks, ck_windows>>

main_vars == <<feed_idx, feed, entry_idx, seen, model_log, sink_log, handled, fetched>>

vars == <<art, pc, i, candidates, calls, lastCall, result, reply, parsed,
          ck_arg, ck_size, ck_text, ck_start, ck_chunks, ck_windows,
          feed_idx, feed, entry_idx, seen, model_log, sink_log, handled, fetched>>

(***************************************************************************)
(* Characters and strings                                                  *)
(***************************************************************************)
\* The whitespace of the model's alphabet (str.strip, regex \s).
WS == {" ", "\t", "\n"}

UPPER == <<"A","B","C","D","E","F","G","H","I","J","K","L","M","N","O","P","Q","R","S","T","U","V","W","X",
    "Y","Z">>

LOWER == <<"a","b","c","d","e","f","g","h","i","j","k","l","m","n","o","p","q","r","s","t","u","v","w","x",
    "y","z">>

LowerMap == [c \in {UPPER[k] : k \in 1..26} |-> LOWER[CHOOSE k \in 1..26 : UPPER[k] = c]]

\* The sequence f as an explicit tuple (a function written [k \in 1..n |-> e] is
\* otherwise re-evaluated at every application).
tuple_of(f) == <<>> \o f

\* str.lower()
str_lower(s) ==
    tuple_of([k \in 1..Len(s) |-> IF s[k] \in DOMAIN LowerMap THEN LowerMap[s[k]] ELSE s[k]])

RECURSIVE SkipWs(_, _)
\* first position >= k of s holding no whitespace (Len(s)+1 when there is none)
SkipWs(s, k) == IF k <= Len(s) /\ s[k] \in WS THEN SkipWs(s, k + 1) ELSE k

RECURSIVE SkipWsBack(_, _)
\* last position <= k of s holding no whitespace (0 when there is none)
SkipWsBack(s, k) == IF k >= 1 /\ s[k] \in WS THEN SkipWsBack(s, k - 1) ELSE k

\* str.strip()
str_strip(s) ==
    LET a == SkipWs(s, 1)
        b == SkipWsBack(s, Len(s))
    IN  IF a > b THEN <<>> ELSE SubSeq(s, a, b)

\* s[:n]
Prefix(s, n) == IF Len(s) <= n THEN s ELSE SubSeq(s, 1, n)

\* p occurs in s starting at position k
OccursAt(p, s, k) == k + Len(p) - 1 <= Len(s) /\ \A j \in 1..Len(p) : s[k + j - 1] = p[j]

\* Python's p in s
str_in(p, s) == \E k \in 1..(Len(s) - Len(p) + 1) : OccursAt(p, s, k)

(***************************************************************************)
(* KEYWORDS (summarize.py lines 67-83), in list order                      *)
(***************************************************************************)
KEYWORDS ==
  << <<"a","i">>,
     <<"a","r","t","i","f","i","c","i","a","l"," ","i","n","t","e","l","l","i","g","e","n","c","e">>,
     <<"m","a","c","h","i","n","e"," ","l","e","a","r","n","i","n","g">>,
     <<"m","l">>,
     <<"d","e","e","p"," ","l","e","a","r","n","i","n","g">>,
     <<"n","e","u","r","a","l"," ","n","e","t","w","o","r","k">>,
     <<"l","l","m">>,
     <<"l","a","r","g","e"," ","l","a","n","g","u","a","g","e"," ","m","o","d","e","l">>,
     <<"g","e","n","e","r","a","t","i","v","e"," ","a","i">>,
     <<"g","e","n","a","i">>,
     <<"c","o","m","p","u","t","e","r"," ","v","i","s","i","o","n">>,
     <<"o","b","j","e","c","t"," ","d","e","t","e","c","t","i","o","n">>,
     <<"a","n","o","m","a","l","y"," ","d","e","t","e","c","t","i","o","n">>,
     <<"p","r","e","d","i","c","t","i","v","e"," ","m","a","i","n","t","e","n","a","n","c","e">>,
     <<"p","r","e","d","i","c","t","i","v","e"," ","a","n","a","l","y","t","i","c","s">>,
     <<"r","e","i","n","f","o","r","c","e","m","e","n","t"," ","l","e","a","r","n","i","n","g">>,
     <<"i","n","d","u","s","t","r","y"," ","4",".","0">>,
     <<"i","i","o","t">>,
     <<"i","n","d","u","s","t","r","i","a","l"," ","i","o","t">>,
     <<"d","i","g","i","t","a","l"," ","t","w","i","n">>,
     <<"s","m","a","r","t"," ","f","a","c","t","o","r","y">>,
     <<"e","d","g","e"," ","a","i">>,
     <<"i","n","d","u","s","t","r","i","a","l"," ","a","u","t","o","m","a","t","i","o","n">>,
     <<"r","o","b","o","t">>,
     <<"r","o","b","o","t","i","c","s">>,
     <<"c","o","b","o","t">>,
     <<"a","m","r">>,
     <<"a","g","v">>,
     <<"r","o","b","o","t","i","c">>,
     <<"r","o","b","o","t","i","c","s"," ","v","i","s","i","o","n">>,
     <<"q","u","a","l","i","t","y"," ","c","o","n","t","r","o","l">>,
     <<"v","i","s","u","a","l"," ","i","n","s","p","e","c","t","i","o","n">>,
     <<"d","e","f","e","c","t"," ","d","e","t","e","c","t","i","o","n">>,
     <<"i","n","s","p","e","c","t","i","o","n">>,
     <<"p","r","o","c","e","s","s"," ","o","p","t","i","m","i","z","a","t","i","o","n">>,
     <<"d","o","w","n","t","i","m","e">>,
     <<"y","i","e","l","d">>,
     <<"t","h","r","o","u","g","h","p","u","t">>,
     <<"o","e","e">>,
     <<"C","N","C">>,
     <<"3","d"," ","p","r","i","n","t","i","n","g">>,
     <<"a","d","d","i","t","i","v","e"," ","m","a","n","u","f","a","c","t","u","r","i","n","g">>,
     <<"s","u","p","p","l","y"," ","c","h","a","i","n">>,
     <<"l","o","g","i","s","t","i","c","s">>,
     <<"w","a","r","e","h","o","u","s","e">>,
     <<"i","n","v","e","n","t","o","r","y">>,
     <<"d","e","m","a","n","d"," ","f","o","r","e","c","a","s","t","i","n","g">>,
     <<"a","u","t","o","m","o","t","i","v","e">>,
     <<"f","o","o","d">>,
     <<"s","e","m","i","c","o","n","d","u","c","t","o","r">>,
     <<"e","l","e","c","t","r","o","n","i","c","s">>,
     <<"p","h","a","r","m","a">>,
     <<"a","e","r","o","s","p","a","c","e">> >>

\* KEYWORDS_LOWER = [k.lower() for k in KEYWORDS]
KEYWORDS_LOWER == tuple_of([k \in 1..Len(KEYWORDS) |-> str_lower(KEYWORDS[k])])

(***************************************************************************)
(* Optional values: None is <<>>, a value v is <<v>>                       *)
(***************************************************************************)
None == <<>>

Some(v) == <<v>>

(***************************************************************************)
(* parse_labelled_output (summarize.py lines 220-287)                      *)
(***************************************************************************)
\* The backtick character (the lexer of TLA+ does not take it in a string literal).
BQ == "bq"

FENCE == <<BQ, BQ, BQ>>

BOLD == <<"*","*">>

BRACKETS == {"[", "]"}

NEWLINE == <<"\n">>

COLON == ":"

\* least position >= k at which p occurs in s; 0 when there is none
FindFrom(p, s, k) ==
    LET hits == {j \in k..(Len(s) - Len(p) + 1) : OccursAt(p, s, j)}
    IN  IF hits = {} THEN 0 ELSE CHOOSE j \in hits : \A m \in hits : j <= m

RECURSIVE remove_fenced(_)
\* re.sub(r'<fence>[\s\S]*?<fence>', '', text): every span from a fence to the nearest
\* following fence is deleted, content included; an unclosed fence is kept.
remove_fenced(text) ==
    LET a == FindFrom(FENCE, text, 1)
        b == IF a = 0 THEN 0 ELSE FindFrom(FENCE, text, a + Len(FENCE))
    IN  IF a = 0 \/ b = 0 THEN text
        ELSE SubSeq(text, 1, a - 1)
                 \o remove_fenced(SubSeq(text, b + Len(FENCE), Len(text)))

STAR == "*"

RECURSIVE StarRunStart(_, _)
\* first position of the run of '*' that holds position k
StarRunStart(text, k) ==
    IF k > 1 /\ text[k - 1] = STAR THEN StarRunStart(text, k - 1) ELSE k

RECURSIVE StarRunEnd(_, _)
\* last position of the run of '*' that holds position k
StarRunEnd(text, k) ==
    IF k < Len(text) /\ text[k + 1] = STAR THEN StarRunEnd(text, k + 1) ELSE k

\* position k is matched by r'\*\*|\[|\]' in a left-to-right scan: a bracket, or
\* a '*' paired with a neighbour (the last '*' of an odd run stays unpaired)
markup_at(text, k) ==
    \/ text[k] \in BRACKETS
    \/ /\ text[k] = STAR
       /\ LET a == StarRunStart(text, k)
              b == StarRunEnd(text, k)
          IN  ~((b - a + 1) % 2 = 1 /\ k = b)

\* re.sub(r'\*\*|\[|\]', '', text)
remove_markup(text) ==
    LET kept == SelectSeq([k \in 1..Len(text) |-> k], LAMBDA k : ~markup_at(text, k))
    IN  tuple_of([j \in 1..Len(kept) |-> text[kept[j]]])

RECURSIVE splitlines(_)
\* str.splitlines() over the model's alphabet (the only line break is "\n")
splitlines(text) ==
    IF text = <<>> THEN <<>>
    ELSE LET nl == FindFrom(NEWLINE, text, 1)
         IN  IF nl = 0 THEN <<text>>
             ELSE <<SubSeq(text, 1, nl - 1)>> \o splitlines(SubSeq(text, nl + 1, Len(text)))

\* lines = [ln.strip() for ln in text.splitlines() if ln.strip()]
stripped_lines(text) ==
    LET raw == splitlines(text)
    IN  SelectSeq([k \in 1..Len(raw) |-> str_strip(raw[k])], LAMBDA ln : ln # <<>>)

LABEL_TITLE == <<"t","i","t","l","e">>

LABEL_PROBLEM == <<"p","r","o","b","l","e","m">>

LABEL_AI_SOLUTION == <<"a","i"," ","s","o","l","u","t","i","o","n">>

LABEL_CATEGORY == <<"c","a","t","e","g","o","r","y">>

LABEL_INDUSTRY == <<"i","n","d","u","s","t","r","y">>

LABEL_NOTE == <<"n","o","t","e">>

\* re.match(r'^\s*<label>\s*:\s*(.+)', ln, flags=re.I) followed by group.strip():
\* the captured value, or <<>> when the line does not match. (.+ needs one
\* character at least, so on a stripped line a match never captures "".)
match_label(label, ln) ==
    LET s == SkipWs(ln, 1)
        p == SkipWs(ln, s + Len(label))
        q == SkipWs(ln, p + 1)
    IN  IF /\ s + Len(label) - 1 <= Len(ln)
           /\ str_lower(SubSeq(ln, s, s + Len(label) - 1)) = label
           /\ p <= Len(ln)
           /\ ln[p] = COLON
           /\ q <= Len(ln)
        THEN str_strip(SubSeq(ln, q, Len(ln)))
        ELSE <<>>

\* fields = {"title":"", "problem":"", "ai_solution":"", "category":"", "industry":"", "note":""}
EmptyFields ==
    [title |-> <<>>, problem |-> <<>>, ai_solution |-> <<>>,
     category |-> <<>>, industry |-> <<>>, note |-> <<>>]

\* first match wins: a field already set is not overwritten
label_line_first_wins(fields, ln) ==
    IF match_label(LABEL_TITLE, ln) # <<>>
        THEN (IF fields.title = <<>>
              THEN [fields EXCEPT !.title = match_label(LABEL_TITLE, ln)] ELSE fields)
    ELSE IF match_label(LABEL_PROBLEM, ln) # <<>>
        THEN (IF fields.problem = <<>>
              THEN [fields EXCEPT !.problem = match_label(LABEL_PROBLEM, ln)] ELSE fields)
    ELSE IF match_label(LABEL_AI_SOLUTION, ln) # <<>>
        THEN (IF fields.ai_solution = <<>>
              THEN [fields EXCEPT !.ai_solution = match_label(LABEL_AI_SOLUTION, ln)]
              ELSE fields)
    ELSE IF match_label(LABEL_CATEGORY, ln) # <<>>
        THEN (IF fields.category = <<>>
              THEN [fields EXCEPT !.category = match_label(LABEL_CATEGORY, ln)] ELSE fields)
    ELSE IF match_label(LABEL_INDUSTRY, ln) # <<>>
        THEN (IF fields.industry = <<>>
              THEN [fields EXCEPT !.industry = match_label(LABEL_INDUSTRY, ln)] ELSE fields)
    ELSE IF match_label(LABEL_NOTE, ln) # <<>>
        THEN (IF fields.note = <<>>
              THEN [fields EXCEPT !.note = match_label(LABEL_NOTE, ln)] ELSE fields)
    ELSE fields

\* One iteration of the first-pass loop: the first label whose pattern matches the
\* line assigns its field (overwriting what an earlier line stored) and continues.
label_line(fields, ln) ==
    IF match_label(LABEL_TITLE, ln) # <<>>
        THEN [fields EXCEPT !.title = match_label(LABEL_TITLE, ln)]
    ELSE IF match_label(LABEL_PROBLEM, ln) # <<>>
        THEN [fields EXCEPT !.problem = match_label(LABEL_PROBLEM, ln)]
    ELSE IF match_label(LABEL_AI_SOLUTION, ln) # <<>>
        THEN [fields EXCEPT !.ai_solution = match_label(LABEL_AI_SOLUTION, ln)]
    ELSE IF match_label(LABEL_CATEGORY, ln) # <<>>
        THEN [fields EXCEPT !.category = match_label(LABEL_CATEGORY, ln)]
    ELSE IF match_label(LABEL_INDUSTRY, ln) # <<>>
        THEN [fields EXCEPT !.industry = match_label(LABEL_INDUSTRY, ln)]
    ELSE IF match_label(LABEL_NOTE, ln) # <<>>
        THEN [fields EXCEPT !.note = match_label(LABEL_NOTE, ln)]
    ELSE fields

RECURSIVE label_pass(_, _)
\* for ln in lines: ...
label_pass(fields, lines) ==
    IF lines = <<>> THEN fields
    ELSE label_pass(label_line(fields, Head(lines)), Tail(lines))

InferMinLen == 10

InferMaxLen == 120

\* second pass: with no title, the first line holding no ':' and longer than 10
\* characters becomes the title, cut to 120 characters and stripped
infer_title(fields, lines) ==
    LET ok == {k \in 1..Len(lines) :
                  /\ \A j \in 1..Len(lines[k]) : lines[k][j] # COLON
                  /\ Len(lines[k]) > InferMinLen}
    IN  IF fields.title # <<>> \/ ok = {} THEN fields
        ELSE LET k == CHOOSE k \in ok : \A m \in ok : k <= m
             IN  [fields EXCEPT !.title = str_strip(Prefix(lines[k], InferMaxLen))]

UNSPECIFIED == <<"u","n","s","p","e","c","i","f","i","e","d">>

\* the keyword search without its break: the last keyword found wins
backfill_ai_solution_last_keyword(fields) ==
    IF fields.ai_solution = <<>> /\ fields.problem # <<>>
    THEN LET pl   == str_lower(fields.problem)
             hits == {k \in 1..Len(KEYWORDS_LOWER) : str_in(KEYWORDS_LOWER[k], pl)}
         IN  IF hits = {} THEN [fields EXCEPT !.ai_solution = UNSPECIFIED]
             ELSE [fields EXCEPT !.ai_solution =
                       KEYWORDS_LOWER[CHOOSE k \in hits : \A n \in hits : k >= n]]
    ELSE fields

\* final guard: an empty ai_solution with a non-empty problem becomes the first
\* keyword of KEYWORDS_LOWER found in problem.lower(), else "unspecified"
backfill_ai_solution(fields) ==
    IF fields.ai_solution = <<>> /\ fields.problem # <<>>
    THEN LET pl   == str_lower(fields.problem)
             hits == {k \in 1..Len(KEYWORDS_LOWER) : str_in(KEYWORDS_LOWER[k], pl)}
         IN  IF hits = {} THEN [fields EXCEPT !.ai_solution = UNSPECIFIED]
             ELSE [fields EXCEPT !.ai_solution =
                       KEYWORDS_LOWER[CHOOSE k \in hits : \A m \in hits : k <= m]]
    ELSE fields

\* the gate dropped: whatever was parsed is returned
validity_gate_open(fields) == Some(fields)

\* sanity: require at least title and ai_solution
validity_gate(fields) ==
    IF fields.title = <<>> \/ fields.ai_solution = <<>> THEN None ELSE Some(fields)

parse_labelled_output(text) ==
    IF text = <<>> \/ str_strip(text) = <<>> THEN None
    ELSE LET lines == stripped_lines(remove_markup(remove_fenced(text)))
         IN  validity_gate(
                 backfill_ai_solution(
                     infer_title(label_pass(EmptyFields, lines), lines)))

(***************************************************************************)
(* chunk_text_by_chars (summarize.py lines 116-137)                        *)
(***************************************************************************)
SENTENCE_END == {".", "?", "!"}

BoundaryWindow == 200

\* re.search(r'[.?!]\s', window): 1-based position of the first sentence-terminal
\* character followed by whitespace inside the window; 0 when there is none
sentence_break(window) ==
    LET hits == {p \in 1..(Len(window) - 1) :
                    window[p] \in SENTENCE_END /\ window[p + 1] \in WS}
    IN  IF hits = {} THEN 0 ELSE CHOOSE p \in hits : \A m \in hits : p <= m

\* the search for a sentence end runs over all the text left, not over 200 characters
chunk_end_unbounded_search(text, chunk_size, start) ==
    LET end == IF start + chunk_size < Len(text) THEN start + chunk_size ELSE Len(text)
        m   == IF end < Len(text)
               THEN sentence_break(SubSeq(text, end + 1, Len(text)))
               ELSE 0
    IN  IF m # 0 THEN end + (m - 1) + 1 ELSE end

\* The value of end for the window that starts at start (0-based, as in the code)
chunk_end(text, chunk_size, start) ==
    LET end == IF start + chunk_size < Len(text) THEN start + chunk_size ELSE Len(text)
        m   == IF end < Len(text)
               THEN sentence_break(SubSeq(text, end + 1,
                        IF end + BoundaryWindow < Len(text) THEN end + BoundaryWindow
                        ELSE Len(text)))
               ELSE 0
    IN  IF m # 0 THEN end + (m - 1) + 1 ELSE end

RECURSIVE chunk_loop(_, _, _)
\* while start < len(text): ...
chunk_loop(text, chunk_size, start) ==
    IF start >= Len(text) THEN <<>>
    ELSE LET end   == chunk_end(text, chunk_size, start)
             chunk == str_strip(SubSeq(text, start + 1, end))
         IN  (IF chunk # <<>> THEN <<chunk>> ELSE <<>>) \o chunk_loop(text, chunk_size, end)

chunk_text_by_chars(text0, chunk_size) ==
    LET text == str_strip(text0)
    IN  IF Len(text) <= chunk_size THEN <<text>> ELSE chunk_loop(text, chunk_size, 0)

(***************************************************************************)
(* score_use_case_candidate (summarize.py lines 139-158)                   *)
(***************************************************************************)
\* number of kw in KEYWORDS_LOWER with kw in text_lower
keyword_hits(text_lower) ==
    Cardinality({k \in 1..Len(KEYWORDS_LOWER) : str_in(KEYWORDS_LOWER[k], text_lower)})

SPACE == <<" ">>

\* " ".join([title, problem, ai_solution]).lower()
combined_text(candidate) ==
    str_lower(candidate.title \o SPACE \o candidate.problem \o SPACE \o candidate.ai_solution)

(***************************************************************************)
(* build_prompt_for_chunk (summarize.py lines 163-184)                     *)
(***************************************************************************)
\* The f-string up to {chunk_text}; it starts with a line break.
PROMPT_TEMPLATE ==
    <<"\n","Y","o","u"," ","a","r","e"," ","a","n"," ","e","x","p","e","r","t"," ","i","n","d","u",
        "s","t","r","i","a","l"," ","a","n","a","l","y","s","t","."," ","R","e","a","d"," ","t","h","e",
        " ","a","r","t","i","c","l","e"," ","e","x","c","e","r","p","t"," ","b","e","l","o","w"," ","a",
        "n","d"," ","*","s","e","l","e","c","t"," ","t","h","e"," ","s","i","n","g","l","e"," ","m","o",
        "s","t"," ","r","e","l","e","v","a","n","t"," ","A","I","-","i","n","-","m","a","n","u","f","a",
        "c","t","u","r","i","n","g"," ","u","s","e"," ","c","a","s","e","*",".","\n","R","e","t","u",
        "r","n"," ","y","o","u","r"," ","a","n","s","w","e","r"," ","O","N","L","Y"," ","i","n"," ","t",
        "h","i","s"," ","e","x","a","c","t"," ","l","a","b","e","l"," ","f","o","r","m","a","t"," ","(",
        "n","o"," ","J","S","O","N",","," ","n","o"," ","e","x","t","r","a"," ","c","o","m","m","e","n",
        "t","a","r","y"," ","e","x","c","e","p","t"," ","a","n"," ","o","p","t","i","o","n","a","l"," ",
        "s","i","n","g","l","e"," ","'","N","o","t","e",":","'"," ","l","i","n","e"," ","a","t"," ","t",
        "h","e"," ","e","n","d",")",":","\n","\n","T","i","t","l","e",":"," ","<","s","h","o","r","t",
        " ","t","i","t","l","e",">","\n","P","r","o","b","l","e","m",":"," ","<","w","h","a","t"," ",
        "p","r","o","b","l","e","m"," ","i","s"," ","s","o","l","v","e","d",">","\n","A","I"," ","S",
        "o","l","u","t","i","o","n",":"," ","<","c","o","n","c","i","s","e"," ","d","e","s","c","r","i",
        "p","t","i","o","n"," ","o","f"," ","t","h","e"," ","A","I"," ","/"," ","M","L"," ","t","e","c",
        "h","n","i","q","u","e"," ","u","s","e","d",">","\n","C","a","t","e","g","o","r","y",":"," ",
        "M","a","n","u","f","a","c","t","u","r","i","n","g"," ","|"," ","L","o","g","i","s","t","i","c",
        "s"," ","|"," ","S","u","p","p","l","y"," ","C","h","a","i","n","\n","I","n","d","u","s","t",
        "r","y",":"," ","<","i","n","d","u","s","t","r","y"," ","n","a","m","e"," ","o","r"," ","\"",
        "G","e","n","e","r","a","l","\"",">","\n","N","o","t","e",":"," ","<","o","p","t","i","o","n",
        "a","l"," ","s","h","o","r","t"," ","n","o","t","e",","," ","e",".","g","."," ","\"","A","r",
        "t","i","c","l","e"," ","c","o","n","t","a","i","n","s"," ","o","t","h","e","r"," ","m","i","n",
        "o","r"," ","u","s","e"," ","c","a","s","e","s","\"",">","\n","\n","A","r","t","i","c","l","e",
        " ","e","x","c","e","r","p","t",":","\n">>

build_prompt_for_chunk(chunk_text) == str_strip(PROMPT_TEMPLATE \o chunk_text \o NEWLINE)

(***************************************************************************)
(* call_openrouter_model (summarize.py lines 186-218)                      *)
(***************************************************************************)
MODEL_PRIMARY == "google/gemma-9b:free"

MODEL_FALLBACK == "qwen/qwen-7b-instruct:free"

HTTP_OK == 200

\* What one requests.post can meet: an exception (transport error), or a
\* response with a status code whose body either has the expected envelope
\* (choices[0].message.content = content) or has not.
Response(raised, status_code, envelope_ok, content) ==
    [raised |-> raised, status_code |-> status_code,
     envelope_ok |-> envelope_ok, content |-> content]

\* a 200 response is taken as a success without looking at its envelope
call_openrouter_model_no_envelope_check(model_name, prompt, resp) ==
    [model  |-> model_name,
     prompt |-> prompt,
     resp   |-> resp,
     posts  |-> 1,
     out    |-> IF resp.raised THEN None
                ELSE IF resp.status_code = HTTP_OK THEN Some(resp.content) ELSE None]

\* One call: requests.post is executed once (there is no loop around it), so the
\* call makes one attempt; out is the returned content, or None.
call_openrouter_model(model_name, prompt, resp) ==
    [model  |-> model_name,
     prompt |-> prompt,
     resp   |-> resp,
     posts  |-> 1,
     out    |-> IF resp.raised THEN None
                ELSE IF resp.status_code = HTTP_OK
                     THEN (IF resp.envelope_ok THEN Some(resp.content) ELSE None)
                     ELSE None]

(***************************************************************************)
(* Selection (summarize.py lines 336-359)                                  *)
(***************************************************************************)
\* an unstable order: among equal scores the later entry comes first
sort_rank_later_first(scores, k) ==
    1 + Cardinality({m \in 1..Len(scores) :
                        scores[m] > scores[k] \/ (scores[m] = scores[k] /\ m > k)})

\* scored.sort(key=lambda x: x[0], reverse=True): list.sort is stable, also with
\* reverse=True, so entries of equal score keep their order. rank(k) is the
\* 1-based position entry k takes.
sort_rank(scores, k) ==
    1 + Cardinality({m \in 1..Len(scores) :
                        scores[m] > scores[k] \/ (scores[m] = scores[k] /\ m < k)})

\* the permutation the sort applies: position j of the sorted list holds entry order[j]
sort_order(scores) ==
    tuple_of([j \in 1..Len(scores) |-> CHOOSE k \in 1..Len(scores) : sort_rank(scores, k) = j])

SEP == <<";", " ">>

RECURSIVE join_sep(_)
\* "; ".join(items)
join_sep(items) ==
    IF items = <<>> THEN <<>>
    ELSE IF Len(items) = 1 THEN items[1]
    ELSE items[1] \o SEP \o join_sep(Tail(items))

ProblemCut == 120

NoteMax == 200

\* t = c.get("title") or c.get("problem")[:120]
other_label(c) == IF c.title # <<>> THEN c.title ELSE Prefix(c.problem, ProblemCut)

\* the separator between the existing note and the other titles forgotten
synthesize_note_no_separator(sorted) ==
    IF Len(sorted) > 1
    THEN Prefix(str_strip(sorted[1].note
                    \o join_sep(tuple_of([j \in 1..(Len(sorted) - 1) |->
                                             other_label(sorted[j + 1])]))), NoteMax)
    ELSE sorted[1].note

\* lines 345-354: the note of the winner, given the sorted candidates
synthesize_note(sorted) ==
    LET winner == sorted[1]
    IN  IF Len(sorted) > 1
        THEN LET other_notes   == tuple_of([j \in 1..(Len(sorted) - 1) |->
                                               other_label(sorted[j + 1])])
                 existing_note == winner.note
                 other_str     == join_sep(other_notes)
                 note_text     == str_strip(existing_note
                                      \o (IF existing_note # <<>> /\ other_str # <<>>
                                          THEN SEP ELSE <<>>)
                                      \o other_str)
             IN  Prefix(note_text, NoteMax)
        ELSE winner.note

(***************************************************************************)
(* Inputs: articles, model replies, HTTP responses                         *)
(***************************************************************************)
\* Articles 1..MaxArticle; article a is cut into a chunks.
MaxArticle == 3

SENTENCE == <<"T","h","e"," ","p","l","a","n","t"," ","u","s","e","s"," ","A","I"," ","r","o","b","o","t","s",
        " ","t","o"," ","c","u","t"," ","d","o","w","n","t","i","m","e","."," ">>

\* s repeated n times
repeat(s, n) == tuple_of([k \in 1..(n * Len(s)) |-> s[((k - 1) % Len(s)) + 1]])

\* Article a: 6 sentences (one chunk), or enough sentences to pass (a-1) cuts of
\* 4000 characters; cleaned text as main hands it over (no outer whitespace).
ArticleInput(a) ==
    [text     |-> str_strip(repeat(SENTENCE, IF a = 1 THEN 6 ELSE 100 * a - 80)),
     title    |-> <<"title", a>>,
     url      |-> <<"url", a>>,
     pub_date |-> <<"date", a>>]

Articles == [a \in 1..MaxArticle |-> ArticleInput(a)]

\* "Line robot": one keyword (robot)
REPLY_ROBOT == <<"T","i","t","l","e",":"," ","L","i","n","e"," ","r","o","b","o","t","\n","P","r","o","b","l",
        "e","m",":"," ","s","l","o","w"," ","c","h","e","c","k","s","\n","A","I"," ","S","o","l","u",
        "t","i","o","n",":"," ","v","i","s","i","o","n","\n","C","a","t","e","g","o","r","y",":"," ",
        "M","a","n","u","f","a","c","t","u","r","i","n","g","\n","I","n","d","u","s","t","r","y",":",
        " ","G","e","n","e","r","a","l">>

\* "Weld check": one keyword (ml), with a Note line
REPLY_WELD == <<"T","i","t","l","e",":"," ","W","e","l","d"," ","c","h","e","c","k","\n","A","I"," ","S","o",
        "l","u","t","i","o","n",":"," ","m","l"," ","m","o","d","e","l","\n","N","o","t","e",":"," ",
        "o","t","h","e","r"," ","m","i","n","o","r"," ","c","a","s","e","s">>

\* "Yield tuning": two keywords (yield, deep learning)
REPLY_YIELD == <<"T","i","t","l","e",":"," ","Y","i","e","l","d"," ","t","u","n","i","n","g","\n","P","r","o",
        "b","l","e","m",":"," ","l","o","w"," ","y","i","e","l","d","\n","A","I"," ","S","o","l","u",
        "t","i","o","n",":"," ","d","e","e","p"," ","l","e","a","r","n","i","n","g">>

\* a title of 125 characters and a note of 80, no keyword
REPLY_LONG == <<"T","i","t","l","e",":"," ","x","x","x","x","x","x","x","x","x","x","x","x","x","x","x","x","x",
        "x","x","x","x","x","x","x","x","x","x","x","x","x","x","x","x","x","x","x","x","x","x","x","x",
        "x","x","x","x","x","x","x","x","x","x","x","x","x","x","x","x","x","x","x","x","x","x","x","x",
        "x","x","x","x","x","x","x","x","x","x","x","x","x","x","x","x","x","x","x","x","x","x","x","x",
        "x","x","x","x","x","x","x","x","x","x","x","x","x","x","x","x","x","x","x","x","x","x","x","x",
        "x","x","x","x","x","x","x","x","x","x","x","x","\n","A","I"," ","S","o","l","u","t","i","o",
        "n",":"," ","q","\n","N","o","t","e",":"," ","n","n","n","n","n","n","n","n","n","n","n","n",
        "n","n","n","n","n","n","n","n","n","n","n","n","n","n","n","n","n","n","n","n","n","n","n","n",
        "n","n","n","n","n","n","n","n","n","n","n","n","n","n","n","n","n","n","n","n","n","n","n","n",
        "n","n","n","n","n","n","n","n","n","n","n","n","n","n","n","n","n","n","n","n">>

\* no label, and a colon in the only line: nothing to extract
REPLY_NOTHING == <<"S","o","r","r","y",":"," ","n","o","t","h","i","n","g"," ","r","e","l","e","v","a","n","t">>

ModelReplies ==
    {REPLY_ROBOT, REPLY_WELD, REPLY_YIELD, REPLY_LONG, REPLY_NOTHING, <<>>}

HTTP_RATE_LIMITED == 429

HTTP_SERVER_ERROR == 500

Responses ==
    {Response(TRUE, 0, FALSE, <<>>),
     Response(FALSE, HTTP_RATE_LIMITED, FALSE, <<>>),
     Response(FALSE, HTTP_SERVER_ERROR, FALSE, <<>>),
     Response(FALSE, HTTP_OK, FALSE, <<>>)}
    \cup {Response(FALSE, HTTP_OK, TRUE, c) : c \in ModelReplies}

(***************************************************************************)
(* score_use_case_candidate, with the article's share looked up            *)
(***************************************************************************)
\* keyword_hits(article_text.lower()) of each article of the model, computed once
ArticleKeywordHits == [a \in 1..MaxArticle |-> keyword_hits(str_lower(Articles[a].text))]

\* number of kw in KEYWORDS_LOWER with kw in article_lower
article_hits(article_text) ==
    LET known == {a \in 1..MaxArticle : Articles[a].text = article_text}
    IN  IF known # {} THEN ArticleKeywordHits[CHOOSE a \in known : TRUE]
        ELSE keyword_hits(str_lower(article_text))

\* the weights of the two keyword counts swapped
score_use_case_candidate_weights_swapped(candidate, article_text) ==
    keyword_hits(combined_text(candidate))
    + 3 * article_hits(article_text)
    + (IF candidate.title # <<>> THEN 2 ELSE 0)
    + (IF candidate.ai_solution # <<>> THEN 3 ELSE 0)

score_use_case_candidate(candidate, article_text) ==
    3 * keyword_hits(combined_text(candidate))
    + article_hits(article_text)
    + (IF candidate.title # <<>> THEN 2 ELSE 0)
    + (IF candidate.ai_solution # <<>> THEN 3 ELSE 0)

(***************************************************************************)
(* extract_single_use_case_for_article (summarize.py lines 292-359)        *)
(***************************************************************************)
CHUNK_SIZE == 4000

FALLBACK_IDX == -1

article_text == Articles[art].text

\* chunks = chunk_text_by_chars(article_text, chunk_size=4000)
chunks == chunk_text_by_chars(article_text, CHUNK_SIZE)

\* every prompt built from the first chunk
primary_prompt_first(chs, idx) == build_prompt_for_chunk(chs[1])

\* prompt = build_prompt_for_chunk(chunk), for chunk number idx (0-based)
primary_prompt(chs, idx) == build_prompt_for_chunk(chs[idx + 1])

\* prompt_full = build_prompt_for_chunk(article_text)
fallback_prompt(text) == build_prompt_for_chunk(text)

\* the tag is the position in the list of candidates, not the chunk index
collect_tagged_by_position(cands, out, idx) ==
    LET parsed_out == IF out # None /\ out[1] # <<>>
                      THEN parse_labelled_output(out[1]) ELSE None
    IN  IF parsed_out # None
        THEN Append(cands, parsed_out[1] @@ [source_chunk_idx |-> Len(cands)])
        ELSE cands

\* if out: parsed = parse_labelled_output(out); if parsed: tag it and append it
collect(cands, out, idx) ==
    LET parsed_out == IF out # None /\ out[1] # <<>>
                      THEN parse_labelled_output(out[1]) ELSE None
    IN  IF parsed_out # None
        THEN Append(cands, parsed_out[1] @@ [source_chunk_idx |-> idx])
        ELSE cands

\* the guard of the fallback dropped: the fallback is called after every loop
needs_fallback_always(cands) == TRUE

\* if not candidates: (line 321)
needs_fallback(cands) == cands = <<>>

\* scored, sorted by score descending (lines 337-341)
sorted_candidates(cands, text) ==
    LET scores == tuple_of([k \in 1..Len(cands) |->
                                 score_use_case_candidate(cands[k], text)])
        order  == sort_order(scores)
    IN  tuple_of([j \in 1..Len(cands) |-> cands[order[j]]])

\* source and date swapped
attach_metadata_swapped(winner, article_url, pub_date_iso) ==
    winner @@ [source |-> pub_date_iso, date |-> article_url]

\* winner["source"] = article_url; winner["date"] = pub_date_iso
attach_metadata(winner, article_url, pub_date_iso) ==
    winner @@ [source |-> article_url, date |-> pub_date_iso]

\* lines 332-359: None without candidates, else the winner
select_result(cands, text, article_url, pub_date_iso) ==
    IF cands = <<>> THEN None
    ELSE LET sorted == sorted_candidates(cands, text)
             winner == [sorted[1] EXCEPT !.note = synthesize_note(sorted)]
         IN  Some(attach_metadata(winner, article_url, pub_date_iso))

\* chunk_text_by_chars is not running
chunker_idle ==
    /\ ck_arg = <<>>
    /\ ck_size = 0
    /\ ck_text = <<>>
    /\ ck_start = 0
    /\ ck_chunks = <<>>
    /\ ck_windows = <<>>

\* main is not running
main_idle ==
    /\ feed_idx = 0
    /\ feed = <<>>
    /\ entry_idx = 0
    /\ seen = {}
    /\ model_log = <<>>
    /\ sink_log = <<>>
    /\ handled = <<>>
    /\ fetched = <<>>

NoCall == [model |-> "", prompt |-> <<>>, resp |-> Response(FALSE, 0, FALSE, <<>>),
           posts |-> 0, out |-> None]

Init ==
    /\ art \in 1..MaxArticle
    /\ pc = "primary"
    /\ i = 0
    /\ candidates = <<>>
    /\ calls = <<>>
    /\ lastCall = NoCall
    /\ result = None
    /\ reply = <<>>
    /\ parsed = None
    /\ chunker_idle
    /\ main_idle

\* One iteration of the loop over chunks: the call to the primary model, the
\* parse of its reply, the append (lines 307-318).
PrimaryChunk ==
    /\ pc = "primary"
    /\ i < Len(chunks)
    /\ \E resp \in Responses :
          LET call == call_openrouter_model(MODEL_PRIMARY, primary_prompt(chunks, i), resp)
          IN  /\ lastCall' = call
              /\ calls' = Append(calls, [model |-> call.model, out |-> call.out])
              /\ candidates' = collect(candidates, call.out, i)
    /\ i' = i + 1
    /\ UNCHANGED <<art, pc, result, reply, parsed>>
    /\ UNCHANGED chunker_vars
    /\ UNCHANGED main_vars

\* The loop is over and candidates is empty: the single call to the fallback
\* model on the full text (lines 321-330).
Fallback ==
    /\ pc = "primary"
    /\ i = Len(chunks)
    /\ needs_fallback(candidates)
    /\ \E resp \in Responses :
          LET call == call_openrouter_model(MODEL_FALLBACK,
                                            fallback_prompt(article_text), resp)
          IN  /\ lastCall' = call
              /\ calls' = Append(calls, [model |-> call.model, out |-> call.out])
              /\ candidates' = collect(candidates, call.out, FALLBACK_IDX)
    /\ pc' = "selecting"
    /\ UNCHANGED <<art, i, result, reply, parsed>>
    /\ UNCHANGED chunker_vars
    /\ UNCHANGED main_vars

\* Lines 332-359: return None, or score, sort, pick, annotate and return the winner.
Finish ==
    /\ \/ pc = "primary" /\ i = Len(chunks) /\ ~needs_fallback(candidates)
       \/ pc = "selecting"
    /\ result' = select_result(candidates, article_text,
                               Articles[art].url, Articles[art].pub_date)
    /\ pc' = "done"
    /\ UNCHANGED <<art, i, candidates, calls, lastCall, reply, parsed>>
    /\ UNCHANGED chunker_vars
    /\ UNCHANGED main_vars

Next == PrimaryChunk \/ Fallback \/ Finish

Spec == Init /\ [][Next]_vars
(***************************************************************************)
(* The parser on its own: parse_labelled_output applied to replies built   *)
(* from up to MaxLines lines of a vocabulary of reply lines                *)
(***************************************************************************)
MaxLines == 3

LINE_TITLE_FOO == <<"T","i","t","l","e",":"," ","F","o","o">>

\* lower-case label, a space before the colon
LINE_TITLE_BAR == <<"t","i","t","l","e"," ",":"," ","B","a","r">>

LINE_PROBLEM_ML == <<"P","r","o","b","l","e","m",":"," ","u","s","e","s"," ","m","a","c","h","i","n","e"," ","l","e",
        "a","r","n","i","n","g"," ","f","o","r"," ","d","e","f","e","c","t"," ","d","e","t","e","c","t",
        "i","o","n">>

LINE_PROBLEM_SLOW == <<"P","r","o","b","l","e","m",":"," ","s","l","o","w">>

LINE_AI_CV == <<"A","I"," ","S","o","l","u","t","i","o","n",":"," ","c","v">>

LINE_AI_NETS == <<"a","i"," ","s","o","l","u","t","i","o","n",":"," ","n","e","t","s">>

\* more than 10 characters and no colon
LINE_PREAMBLE == <<"H","e","r","e"," ","i","s"," ","t","h","e"," ","a","n","s","w","e","r">>

LINE_JSON_OBJECT == <<"{","\"","t","i","t","l","e","\"",":"," ","\"","F","o","o","\"",","," ","\"","a","i","_","s",
        "o","l","u","t","i","o","n","\"",":"," ","\"","c","v","\"","}">>

\* the skip marker as a JSON object
LINE_SKIP == <<"{","\"","s","k","i","p","\"",":"," ","t","r","u","e","}">>

LINE_FENCE_JSON == <<BQ,BQ,BQ,"j","s","o","n">>

LINE_FENCE == <<BQ,BQ,BQ>>

ParseVocab ==
    <<LINE_TITLE_FOO, LINE_TITLE_BAR, LINE_PROBLEM_ML, LINE_PROBLEM_SLOW, LINE_AI_CV,
      LINE_AI_NETS, LINE_PREAMBLE, LINE_JSON_OBJECT, LINE_SKIP, LINE_FENCE_JSON, LINE_FENCE>>

RECURSIVE join_lines(_)
\* the lines, separated by line breaks
join_lines(ls) ==
    IF ls = <<>> THEN <<>>
    ELSE IF Len(ls) = 1 THEN ls[1]
    ELSE ls[1] \o NEWLINE \o join_lines(Tail(ls))

\* the label lines of the vocabulary
LabelLines ==
    <<LINE_TITLE_FOO, LINE_TITLE_BAR, LINE_PROBLEM_ML, LINE_PROBLEM_SLOW, LINE_AI_CV, LINE_AI_NETS>>

\* a block of MaxLines - 1 label lines with a fence line before it and one after
FencedLabelBlocks ==
    {join_lines(<<LINE_FENCE>> \o [k \in 1..(MaxLines - 1) |-> LabelLines[f[k]]]
                \o <<LINE_FENCE>>) : f \in [1..(MaxLines - 1) -> 1..Len(LabelLines)]}

ParseReplies ==
    UNION {{join_lines([k \in 1..n |-> ParseVocab[f[k]]]) : f \in [1..n -> 1..Len(ParseVocab)]}
              : n \in 1..MaxLines}
    \cup FencedLabelBlocks

ParseInit ==
    /\ art = 1
    /\ pc = "parse_input"
    /\ i = 0
    /\ candidates = <<>>
    /\ calls = <<>>
    /\ lastCall = NoCall
    /\ result = None
    /\ reply \in ParseReplies
    /\ parsed = None
    /\ chunker_idle
    /\ main_idle

Parse ==
    /\ pc = "parse_input"
    /\ parsed' = parse_labelled_output(reply)
    /\ pc' = "parsed"
    /\ UNCHANGED <<art, i, candidates, calls, lastCall, result, reply>>
    /\ UNCHANGED chunker_vars
    /\ UNCHANGED main_vars

ParseNext == Parse

ParseSpec == ParseInit /\ [][ParseNext]_vars
(***************************************************************************)
(* The chunker on its own: chunk_text_by_chars run step by step on texts   *)
(* over a small alphabet and on texts with one sentence end placed around  *)
(* the 200-character search window                                         *)
(***************************************************************************)
MaxText == 3

MaxChunkSize == 3

ChunkAlphabet == {"a", ".", " "}

\* every text of up to MaxText characters
ShortTexts == UNION {[1..n -> ChunkAlphabet] : n \in 0..MaxText}

\* n letters, a sentence end, letters again, outer whitespace: the sentence end
\* lies n characters into the text
long_text(n) == <<" ">> \o repeat(<<"a">>, n) \o <<".", " ", "b", "b", "?", "\n">>

\* distances that put the sentence end just inside and just outside the window
\* of a cut at 1..MaxChunkSize
BoundaryDistances == (BoundaryWindow - 2)..(BoundaryWindow + 1)

ChunkTexts == {tuple_of(t) : t \in ShortTexts} \cup {long_text(n) : n \in BoundaryDistances}

ChunkSizes == 1..MaxChunkSize

ChunkInit ==
    /\ art = 1
    /\ pc = "chunk_input"
    /\ i = 0
    /\ candidates = <<>>
    /\ calls = <<>>
    /\ lastCall = NoCall
    /\ result = None
    /\ reply = <<>>
    /\ parsed = None
    /\ ck_arg \in ChunkTexts
    /\ ck_size \in ChunkSizes
    /\ ck_text = <<>>
    /\ ck_start = 0
    /\ ck_chunks = <<>>
    /\ ck_windows = <<>>
    /\ main_idle

\* text = text.strip(), without the strip
stripped_text_kept(text0) == text0

\* text = text.strip() (line 121)
stripped_text(text0) == str_strip(text0)

\* the slice starts one character late
window_chunk_late(text, start, end) == str_strip(SubSeq(text, start + 2, end))

\* chunk = text[start:end].strip() (line 133)
window_chunk(text, start, end) == str_strip(SubSeq(text, start + 1, end))

\* if chunk: chunks.append(chunk) (lines 134-135)
emit(chunk_list, chunk) == IF chunk # <<>> THEN Append(chunk_list, chunk) ELSE chunk_list

\* Lines 121-126: strip, return [text] for a short text, else enter the loop.
ChunkEnter ==
    /\ pc = "chunk_input"
    /\ ck_text' = stripped_text(ck_arg)
    /\ IF Len(ck_text') <= ck_size
       THEN /\ ck_chunks' = <<ck_text'>>
            /\ pc' = "chunked"
       ELSE /\ ck_chunks' = <<>>
            /\ pc' = "chunk_loop"
    /\ ck_start' = 0
    /\ UNCHANGED <<ck_arg, ck_size, ck_windows>>
    /\ UNCHANGED article_vars_but_pc
    /\ UNCHANGED main_vars

\* One iteration of while start < len(text) (lines 126-136).
ChunkStep ==
    /\ pc = "chunk_loop"
    /\ ck_start < Len(ck_text)
    /\ LET end == chunk_end(ck_text, ck_size, ck_start)
       IN  /\ ck_chunks' = emit(ck_chunks, window_chunk(ck_text, ck_start, end))
           /\ ck_windows' = Append(ck_windows, <<ck_start, end>>)
           /\ ck_start' = end
    /\ UNCHANGED <<pc, ck_arg, ck_size, ck_text>>
    /\ UNCHANGED article_vars_but_pc
    /\ UNCHANGED main_vars

\* The loop condition fails: return chunks (line 137).
ChunkReturn ==
    /\ pc = "chunk_loop"
    /\ ck_start >= Len(ck_text)
    /\ pc' = "chunked"
    /\ UNCHANGED chunker_vars
    /\ UNCHANGED article_vars_but_pc
    /\ UNCHANGED main_vars

ChunkNext == ChunkEnter \/ ChunkStep \/ ChunkReturn

ChunkSpec == ChunkInit /\ [][ChunkNext]_vars

\* the function runs on: no step that is possible is put off for ever
ChunkLiveSpec == ChunkSpec /\ WF_vars(ChunkNext)
(***************************************************************************)
(* clean_text and is_relevant (summarize.py lines 99-114)                  *)
(***************************************************************************)
RECURSIVE remove_tags(_)
\* re.sub(r'<[^>]+>', '', s): a tag is "<", one or more characters other than
\* ">", and the first ">" after them
remove_tags(s) ==
    LET opens == {q \in 1..(Len(s) - 2) :
                     /\ s[q] = "<"
                     /\ s[q + 1] # ">"
                     /\ \E c \in (q + 2)..Len(s) : s[c] = ">"}
    IN  IF opens = {} THEN s
        ELSE LET q == CHOOSE o \in opens : \A n \in opens : o <= n
                 c == CHOOSE e \in (q + 2)..Len(s) :
                         s[e] = ">" /\ \A n \in (q + 2)..(e - 1) : s[n] # ">"
             IN  SubSeq(s, 1, q - 1) \o remove_tags(SubSeq(s, c + 1, Len(s)))

\* re.sub(r'\s+', ' ', s): every run of whitespace becomes one blank
collapse_whitespace(s) ==
    LET keep == SelectSeq(tuple_of([k \in 1..Len(s) |-> k]),
                          LAMBDA k : s[k] \notin WS \/ k = 1 \/ s[k - 1] \notin WS)
    IN  tuple_of([j \in 1..Len(keep) |-> IF s[keep[j]] \in WS THEN " " ELSE s[keep[j]]])

clean_text(html_or_text) == str_strip(collapse_whitespace(remove_tags(html_or_text)))

\* any(kw in text_lower for kw in KEYWORDS_LOWER)
is_relevant(text) ==
    LET text_lower == str_lower(text)
    IN  \E k \in 1..Len(KEYWORDS_LOWER) : str_in(KEYWORDS_LOWER[k], text_lower)

(***************************************************************************)
(* add_to_notion (summarize.py lines 364-404)                              *)
(***************************************************************************)
\* dict.get(key, default)
dict_get(rec, key, default) == IF key \in DOMAIN rec THEN rec[key] ELSE default

UNTITLED == <<"U","n","t","i","t","l","e","d"," ","U","s","e"," ","C","a","s","e">>

GENERAL == <<"G","e","n","e","r","a","l">>

\* datetime.now(timezone.utc).isoformat(), one value for the run
NOW_ISO == <<"2","0","2","6","-","0","1","-","0","1","T","0","0",":","0","0",":","0","0","+","0","0",":","0",
    "0">>

DateLen == 10

\* the properties of the page (lines 376-395)
notion_payload(use_case) ==
    [Title       |-> dict_get(use_case, "title", UNTITLED),
     Problem     |-> dict_get(use_case, "problem", <<>>),
     AI_Solution |-> dict_get(use_case, "ai_solution", <<>>),
     Category    |-> dict_get(use_case, "category", GENERAL),
     Industry    |-> dict_get(use_case, "industry", GENERAL),
     Source      |-> dict_get(use_case, "source", <<>>),
     Date        |-> Prefix(dict_get(use_case, "date", NOW_ISO), DateLen)]

HTTP_BAD_REQUEST == 400

\* what requests.post to the sink can do: raise, answer 200, answer an error status
SinkResponses ==
    {[raised |-> TRUE, status_code |-> 0],
     [raised |-> FALSE, status_code |-> HTTP_OK],
     [raised |-> FALSE, status_code |-> HTTP_BAD_REQUEST]}

\* the one request of add_to_notion and what it printed (lines 397-404); the
\* function returns normally in all three cases
add_to_notion(use_case, sink_resp) ==
    [payload |-> notion_payload(use_case),
     printed |-> IF sink_resp.raised THEN "error_posting"
                 ELSE IF sink_resp.status_code = HTTP_OK THEN "added"
                 ELSE "notion_error"]

(***************************************************************************)
(* extract_single_use_case_for_article as one call, given the responses    *)
(* to its model calls in order                                             *)
(***************************************************************************)
RECURSIVE primary_loop(_, _, _, _)
\* the loop over chunks from index idx on (lines 307-318)
primary_loop(chs, resps, idx, cands) ==
    IF idx >= Len(chs) THEN cands
    ELSE primary_loop(chs, resps, idx + 1,
             collect(cands,
                     call_openrouter_model(MODEL_PRIMARY, primary_prompt(chs, idx),
                                           resps[idx + 1]).out,
                     idx))

\* lines 321-330: the fallback call when the loop gave no candidate
after_fallback(primary, text, resp) ==
    IF needs_fallback(primary)
    THEN collect(primary,
                 call_openrouter_model(MODEL_FALLBACK, fallback_prompt(text), resp).out,
                 FALLBACK_IDX)
    ELSE primary

\* the models called, in order: the primary model once per chunk, then the
\* fallback model if the loop gave no candidate
models_called(chs, primary) ==
    tuple_of([k \in 1..Len(chs) |-> MODEL_PRIMARY])
    \o (IF needs_fallback(primary) THEN <<MODEL_FALLBACK>> ELSE <<>>)

\* what the function returns and the calls it made, given the chunks and the
\* candidates of the loop
run_after_loop(chs, primary, text, article_url, pub_date_iso, resps) ==
    [use_case |-> select_result(after_fallback(primary, text, resps[Len(chs) + 1]),
                                text, article_url, pub_date_iso),
     models   |-> models_called(chs, primary)]

run_on_chunks(chs, text, article_url, pub_date_iso, resps) ==
    run_after_loop(chs, primary_loop(chs, resps, 0, <<>>), text, article_url,
                   pub_date_iso, resps)

\* resps[k] answers the call for chunk k-1, resps[n+1] the fallback call if made
extract_single_use_case_for_article(text, article_url, pub_date_iso, resps) ==
    run_on_chunks(chunk_text_by_chars(text, CHUNK_SIZE), text, article_url,
                  pub_date_iso, resps)

(***************************************************************************)
(* main (summarize.py lines 409-461)                                       *)
(***************************************************************************)
FEEDS == <<"https://industry4o.com/feed", "https://www.manufacturingdive.com/feeds/news/",
           "https://venturebeat.com/category/ai/feed/">>

\* for entry in feed.entries[:5]
EntryLimit == 5

MinTextLen == 200

ProblemMax == 2000

NOTE_OPEN == <<" "," ","(","N","o","t","e",":"," ">>

NOTE_CLOSE == <<")">>

PARAGRAPH_BREAK == <<"\n", "\n">>

LETTER_T == "T"

TITLE_ROBOTS == <<"R","o","b","o","t","s"," ","a","t"," ","w","o","r","k">>

TITLE_MARKET == <<"W","e","e","k","l","y"," ","m","a","r","k","e","t"," ","n","e","w","s">>

PUBLISHED_ISO == <<"2","0","2","4","-","0","1","-","0","5","T","1","0",":","0","0",":","0","0","Z">>

PUBLISHED_RFC822 == <<"M","o","n",","," ","0","5"," ","J","a","n"," ","2","0","2","4"," ","1","0",":","0","0",":","0",
    "0"," ","+","0","0","0","0">>

TEXT_MARKET == <<"T","h","e"," ","o","l","d"," ","t","o","w","n"," ","h","o","s","t","s"," ","a"," ","w","e","e",
    "k","l","y"," ","m","a","r","k","e","t"," ","w","h","e","r","e"," ","g","r","o","w","e","r","s",
    " ","s","e","l","l"," ","f","r","e","s","h"," ","f","r","u","i","t","."," ","T","h","e"," ","o",
    "l","d"," ","t","o","w","n"," ","h","o","s","t","s"," ","a"," ","w","e","e","k","l","y"," ","m",
    "a","r","k","e","t"," ","w","h","e","r","e"," ","g","r","o","w","e","r","s"," ","s","e","l","l",
    " ","f","r","e","s","h"," ","f","r","u","i","t","."," ","T","h","e"," ","o","l","d"," ","t","o",
    "w","n"," ","h","o","s","t","s"," ","a"," ","w","e","e","k","l","y"," ","m","a","r","k","e","t",
    " ","w","h","e","r","e"," ","g","r","o","w","e","r","s"," ","s","e","l","l"," ","f","r","e","s",
    "h"," ","f","r","u","i","t","."," ","T","h","e"," ","o","l","d"," ","t","o","w","n"," ","h","o",
    "s","t","s"," ","a"," ","w","e","e","k","l","y"," ","m","a","r","k","e","t"," ","w","h","e","r",
    "e"," ","g","r","o","w","e","r","s"," ","s","e","l","l"," ","f","r","e","s","h"," ","f","r","u",
    "i","t",".">>

Url(n) == <<"u", n>>

\* an entry whose cleaned text is the text of article 1: long enough, relevant
EntryArticle(n) ==
    [link |-> Url(n), title |-> TITLE_ROBOTS,
     summary |-> <<"<", "p", ">">> \o Articles[1].text \o <<"<", "/", "p", ">", "\n">>,
     content |-> <<>>, published |-> PUBLISHED_ISO]

\* fewer than 200 characters
EntryShort(n) ==
    [link |-> Url(n), title |-> TITLE_ROBOTS, summary |-> <<"A", "I">>,
     content |-> <<"r", "o", "b", "o", "t", "s", ".">>, published |-> PUBLISHED_RFC822]

\* long enough, no keyword in title or text
EntryMarket(n) ==
    [link |-> Url(n), title |-> TITLE_MARKET, summary |-> TEXT_MARKET,
     content |-> <<>>, published |-> <<>>]

\* entry.get("link") gives None
EntryNoLink == [EntryArticle(0) EXCEPT !.link = <<>>]

\* the same URL twice in one feed
FEED_REPEAT == <<EntryArticle(1), EntryArticle(1), EntryNoLink>>

\* URL 1 again, as in FEED_REPEAT
FEED_MIXED == <<EntryShort(2), EntryArticle(1), EntryMarket(3)>>

\* six entries, an article fifth and another sixth
FEED_SIX == <<EntryNoLink, EntryShort(2), EntryMarket(3), EntryShort(4), EntryArticle(5),
              EntryArticle(6)>>

\* what feedparser.parse can do: raise, or give a feed
FeedResults ==
    {[raised |-> TRUE, entries |-> <<>>]}
    \cup {[raised |-> FALSE, entries |-> es] : es \in {<<>>, FEED_REPEAT, FEED_MIXED, FEED_SIX}}

\* the responses of the model calls made for an entry of main
MainResponses ==
    {Response(FALSE, HTTP_RATE_LIMITED, FALSE, <<>>),
     Response(FALSE, HTTP_OK, TRUE, REPLY_ROBOT),
     Response(FALSE, HTTP_OK, TRUE, REPLY_WELD)}

MainInit ==
    /\ art = 1
    /\ pc = "main_feed"
    /\ i = 0
    /\ candidates = <<>>
    /\ calls = <<>>
    /\ lastCall = NoCall
    /\ result = None
    /\ reply = <<>>
    /\ parsed = None
    /\ chunker_idle
    /\ main_idle

\* feed.entries[:5]
entries_slice(entries) == Prefix(entries, EntryLimit)

\* if not url or url in seen, without the look into seen
is_skipped_no_seen(url, seen_urls) == url = <<>>

\* if not url or url in seen (line 421)
is_skipped(url, seen_urls) == url = <<>> \/ url \in seen_urls

\* a function computed once and kept as a table
table_of(f) == f @@ [x \in {} |-> x]

\* the entries the feeds of the model hold
KnownEntries == UNION {{r.entries[k] : k \in 1..Len(r.entries)} : r \in FeedResults}

\* clean_text(summary + "\n\n" + content) of each of them, computed once
CleanedTexts ==
    table_of([e \in KnownEntries |-> clean_text(e.summary \o PARAGRAPH_BREAK \o e.content)])

\* text = clean_text(summary + "\n\n" + content) (line 428)
entry_text(entry) ==
    IF entry \in KnownEntries THEN CleanedTexts[entry]
    ELSE clean_text(entry.summary \o PARAGRAPH_BREAK \o entry.content)

\* is_relevant(title + " " + text) of each of them, computed once
EntryRelevance ==
    table_of([e \in KnownEntries |-> is_relevant(e.title \o SPACE \o CleanedTexts[e])])

\* is_relevant(title + " " + text) (line 434)
entry_relevant(entry) ==
    IF entry \in KnownEntries THEN EntryRelevance[entry]
    ELSE is_relevant(entry.title \o SPACE \o entry_text(entry))

\* lines 441-443: the published date when it holds a "T", else now
canonical_date(entry) ==
    LET pub_date == IF entry.published # <<>> THEN entry.published ELSE NOW_ISO
    IN  IF \E k \in 1..Len(pub_date) : pub_date[k] = LETTER_T THEN pub_date ELSE NOW_ISO

\* lines 452-453: the note goes into problem
note_into_problem(use_case) ==
    IF dict_get(use_case, "note", <<>>) # <<>>
    THEN [use_case EXCEPT !.problem =
              Prefix(dict_get(use_case, "problem", <<>>) \o NOTE_OPEN \o use_case.note
                     \o NOTE_CLOSE, ProblemMax)]
    ELSE use_case

\* the feed index after a feed that failed to parse: the run stops
feed_after_failure_break(idx) == Len(FEEDS)

\* the feed index after a feed that failed to parse: continue (line 417)
feed_after_failure(idx) == idx + 1

\* feedparser.parse raises: the failure is printed and the next feed is taken
\* (lines 411-417).
FeedFails ==
    /\ pc = "main_feed"
    /\ feed_idx < Len(FEEDS)
    /\ \E r \in FeedResults :
          /\ r.raised
          /\ fetched' = Append(fetched, r)
    /\ feed_idx' = feed_after_failure(feed_idx)
    /\ UNCHANGED <<pc, feed, entry_idx, seen, model_log, sink_log, handled>>
    /\ UNCHANGED article_vars_but_pc
    /\ UNCHANGED chunker_vars

\* feedparser.parse gives a feed: the loop over its first entries begins
\* (lines 411-419).
FeedParsed ==
    /\ pc = "main_feed"
    /\ feed_idx < Len(FEEDS)
    /\ \E r \in FeedResults :
          /\ ~r.raised
          /\ fetched' = Append(fetched, r)
          /\ feed' = r.entries
    /\ entry_idx' = 0
    /\ pc' = "main_entries"
    /\ UNCHANGED <<feed_idx, seen, model_log, sink_log, handled>>
    /\ UNCHANGED article_vars_but_pc
    /\ UNCHANGED chunker_vars

\* the entry the inner loop is at
entry_now == entries_slice(feed)[entry_idx + 1]

\* the record of an entry taken up
Handled(outcome) ==
    [feed |-> feed_idx, entry |-> entry_idx, url |-> entry_now.link, outcome |-> outcome]

\* the responses the model calls for an entry can get: one per chunk, one more
\* for the fallback call
ResponseLists(entry) ==
    [1..(Len(chunk_text_by_chars(entry_text(entry), CHUNK_SIZE)) + 1) -> MainResponses]

\* the entries that reach the extraction
ArticleEntries ==
    {e \in KnownEntries : e.link # <<>> /\ Len(CleanedTexts[e]) >= MinTextLen /\ EntryRelevance[e]}

\* extract_single_use_case_for_article for each of them and each list of
\* responses, computed once
KnownRuns ==
    table_of([e \in ArticleEntries |->
        table_of([resps \in ResponseLists(e) |->
            extract_single_use_case_for_article(CleanedTexts[e], e.link,
                                                canonical_date(e), resps)])])

\* use_case = extract_single_use_case_for_article(text, title, url, pub_date)
\* (line 446)
entry_run(entry, resps) ==
    IF entry \in ArticleEntries THEN KnownRuns[entry][resps]
    ELSE extract_single_use_case_for_article(entry_text(entry), entry.link,
                                             canonical_date(entry), resps)

\* the model calls of a run, each with the URL it was made for
logged_calls(url, models) ==
    tuple_of([k \in 1..Len(models) |-> [url |-> url, model |-> models[k]]])

\* the record of a request to the sink
Posted(url, use_case, sent) ==
    [url |-> url, use_case |-> use_case, payload |-> sent.payload, printed |-> sent.printed]

\* lines 446-456 after the extraction: continue without a use case, else put the
\* note into problem and post
AfterExtraction(url, run) ==
    /\ model_log' = model_log \o logged_calls(url, run.models)
    /\ IF run.use_case = None
       THEN /\ handled' = Append(handled, Handled("no_use_case"))
            /\ UNCHANGED sink_log
       ELSE /\ \E sink_resp \in SinkResponses :
                  sink_log' = Append(sink_log,
                      Posted(url, run.use_case[1],
                             add_to_notion(note_into_problem(run.use_case[1]), sink_resp)))
            /\ handled' = Append(handled, Handled("posted"))

\* lines 423-456 for an entry with a new URL
HandleNew(entry) ==
    IF Len(entry_text(entry)) < MinTextLen
    THEN /\ handled' = Append(handled, Handled("too_short"))
         /\ UNCHANGED <<model_log, sink_log>>
    ELSE IF ~entry_relevant(entry)
    THEN /\ handled' = Append(handled, Handled("not_relevant"))
         /\ UNCHANGED <<model_log, sink_log>>
    ELSE \E resps \in ResponseLists(entry) :
            AfterExtraction(entry.link, entry_run(entry, resps))

\* One iteration of the loop over entries (lines 419-459): skip an entry without
\* URL or with a URL seen before; else remember the URL, filter by length and
\* relevance, extract, and post the use case if there is one.
HandleEntry ==
    /\ pc = "main_entries"
    /\ entry_idx < Len(entries_slice(feed))
    /\ IF is_skipped(entry_now.link, seen)
       THEN /\ handled' = Append(handled, Handled("skipped"))
            /\ UNCHANGED <<seen, model_log, sink_log>>
       ELSE /\ seen' = seen \cup {entry_now.link}
            /\ HandleNew(entry_now)
    /\ entry_idx' = entry_idx + 1
    /\ UNCHANGED <<pc, feed_idx, feed, fetched>>
    /\ UNCHANGED article_vars_but_pc
    /\ UNCHANGED chunker_vars

\* The loop over entries is over: on to the next feed.
FeedDone ==
    /\ pc = "main_entries"
    /\ entry_idx >= Len(entries_slice(feed))
    /\ feed_idx' = feed_idx + 1
    /\ pc' = "main_feed"
    /\ UNCHANGED <<feed, entry_idx, seen, model_log, sink_log, handled, fetched>>
    /\ UNCHANGED article_vars_but_pc
    /\ UNCHANGED chunker_vars

\* The loop over feeds is over: print Done (line 461).
MainDone ==
    /\ pc = "main_feed"
    /\ feed_idx >= Len(FEEDS)
    /\ pc' = "main_done"
    /\ UNCHANGED main_vars
    /\ UNCHANGED article_vars_but_pc
    /\ UNCHANGED chunker_vars

MainNext == FeedFails \/ FeedParsed \/ HandleEntry \/ FeedDone \/ MainDone

MainSpec == MainInit /\ [][MainNext]_vars

\* main runs on: no step that is possible is put off for ever
MainLiveSpec == MainSpec /\ WF_vars(MainNext)
(***************************************************************************)
(* Properties of the article run (specification Spec)                      *)
(***************************************************************************)
\* positions in calls of the calls made with the primary / the fallback model
PrimaryCalls == {k \in 1..Len(calls) : calls[k].model = MODEL_PRIMARY}

FallbackCalls == {k \in 1..Len(calls) : calls[k].model = MODEL_FALLBACK}

\* the value a call returned yields a candidate
ValidOut(out) == out # None /\ parse_labelled_output(out[1]) # None

\* C1: the fallback model is called iff all primary chunk calls are over and none
\* yielded a valid candidate; then once, after all chunk calls, with a prompt
\* built from the whole article text; never when a chunk yielded a candidate.
C1_FallbackIffNoPrimaryCandidate ==
    /\ Cardinality(FallbackCalls) <= 1
    /\ \A k \in FallbackCalls :
          /\ k = Len(chunks) + 1
          /\ \A j \in 1..(k - 1) : calls[j].model = MODEL_PRIMARY /\ ~ValidOut(calls[j].out)
    /\ lastCall.model = MODEL_FALLBACK =>
          lastCall.prompt = build_prompt_for_chunk(Articles[art].text)
    /\ pc = "done" =>
          /\ Cardinality(PrimaryCalls) = Len(chunks)
          /\ FallbackCalls # {} <=> \A j \in PrimaryCalls : ~ValidOut(calls[j].out)

\* a finished run of an article of several chunks in which the fallback was called
C1_Witness ==
    /\ pc = "done"
    /\ Len(chunks) >= 2
    /\ FallbackCalls # {}
    /\ lastCall.prompt # build_prompt_for_chunk(chunks[Len(chunks)])

\* the fields the parser fills and the origin tag agree
SameCandidate(r, c) ==
    /\ r.title = c.title
    /\ r.problem = c.problem
    /\ r.ai_solution = c.ai_solution
    /\ r.category = c.category
    /\ r.industry = c.industry
    /\ r.source_chunk_idx = c.source_chunk_idx

\* C2: a run ends with None iff no call (primary or fallback) yielded a valid
\* candidate, and otherwise with one record, which is one of the collected
\* candidates with source = the article URL and date = the date passed in.
C2_OneResultOrNone ==
    /\ pc # "done" => result = None
    /\ pc = "done" =>
          /\ result = None <=> \A k \in 1..Len(calls) : ~ValidOut(calls[k].out)
          /\ Len(result) <= 1
          /\ result # None =>
                /\ \E k \in 1..Len(candidates) : SameCandidate(result[1], candidates[k])
                /\ result[1].source = Articles[art].url
                /\ result[1].date = Articles[art].pub_date

\* a finished run that chose among several candidates
C2_Witness == pc = "done" /\ result # None /\ Len(candidates) >= 2

\* C3: the primary model is called once per chunk, in chunk order, whatever the
\* earlier outcomes; a failed call or an unparsable reply adds no candidate and
\* stops neither the later chunk calls nor the run.
C3_OneCallPerChunkInOrder ==
    /\ Cardinality(PrimaryCalls) = i
    /\ \A k \in PrimaryCalls : k <= Len(chunks)
    /\ \A k \in 1..Len(calls) : k <= Len(chunks) => k \in PrimaryCalls
    /\ lastCall.model = MODEL_PRIMARY =>
          /\ lastCall.prompt = build_prompt_for_chunk(chunks[Len(calls)])
          /\ ~ValidOut(lastCall.out) =>
                \A k \in 1..Len(candidates) :
                    candidates[k].source_chunk_idx # Len(calls) - 1
    /\ pc \in {"selecting", "done"} => Cardinality(PrimaryCalls) = Len(chunks)
    /\ \A k \in 1..Len(candidates) :
          candidates[k].source_chunk_idx >= 0 =>
              ValidOut(calls[candidates[k].source_chunk_idx + 1].out)

\* a finished run of three chunks or more whose first chunk call failed, whose
\* second reply held nothing, and whose third chunk still gave a candidate
C3_Witness ==
    /\ pc = "done"
    /\ Len(chunks) >= 3
    /\ calls[1].out = None
    /\ calls[2].out = Some(REPLY_NOTHING)
    /\ ValidOut(calls[3].out)
    /\ \E k \in 1..Len(candidates) : candidates[k].source_chunk_idx = 2
\* C4, as stated: a call gives up only after its attempt budget (2 attempts at
\* least) is used up, never after a single failed attempt.
C4_RetriesBeforeGivingUp ==
    (lastCall.posts > 0 /\ lastCall.out = None) => lastCall.posts >= 2

\* C4, amended: a call makes exactly one attempt, with no retry and no backoff;
\* it returns the content iff that one response has status 200 and the expected
\* envelope, and fails at once on a transport error, on 429, on any other
\* status and on a malformed envelope.
C4_SingleAttemptNoRetry ==
    lastCall.posts > 0 =>
        /\ lastCall.posts = 1
        /\ lastCall.out # None <=>
              (~lastCall.resp.raised /\ lastCall.resp.status_code = HTTP_OK
                  /\ lastCall.resp.envelope_ok)
        /\ lastCall.out # None => lastCall.out = Some(lastCall.resp.content)

\* a call that met 429 on its only attempt and returned failure
C4_Witness ==
    /\ lastCall.posts = 1
    /\ ~lastCall.resp.raised
    /\ lastCall.resp.status_code = HTTP_RATE_LIMITED
    /\ lastCall.out = None

\* title and ai_solution that parsing a reply arrives at, before the validity gate
FieldsBeforeGate(text) ==
    LET lines == stripped_lines(remove_markup(remove_fenced(text)))
    IN  backfill_ai_solution(infer_title(label_pass(EmptyFields, lines), lines))

YieldsBoth(out) ==
    /\ out # None
    /\ str_strip(out[1]) # <<>>
    /\ FieldsBeforeGate(out[1]).title # <<>>
    /\ FieldsBeforeGate(out[1]).ai_solution # <<>>

\* C5: every parsed candidate, every element of candidates and every returned
\* record has a non-empty title and a non-empty ai_solution; a reply that does
\* not yield both parses to None and adds nothing to candidates.
C5_CandidatesValid ==
    /\ \A k \in 1..Len(candidates) :
          candidates[k].title # <<>> /\ candidates[k].ai_solution # <<>>
    /\ result # None => result[1].title # <<>> /\ result[1].ai_solution # <<>>
    /\ \A k \in 1..Len(calls) :
          calls[k].out # None =>
              LET p == parse_labelled_output(calls[k].out[1])
              IN  /\ p # None => p[1].title # <<>> /\ p[1].ai_solution # <<>>
                  /\ p = None <=> ~YieldsBoth(calls[k].out)
    /\ Len(candidates) = Cardinality({k \in 1..Len(calls) : YieldsBoth(calls[k].out)})

\* a run that returned a record although one of its replies was discarded
C5_Witness ==
    /\ pc = "done"
    /\ result # None
    /\ \E k \in 1..Len(calls) : calls[k].out = Some(REPLY_NOTHING)
    /\ Len(candidates) < Len(calls)

\* score of the candidate at position k of candidates (discovery order)
CandScore(k) == score_use_case_candidate(candidates[k], Articles[art].text)

\* position in candidates of the returned record
WinnerPos ==
    CHOOSE k \in 1..Len(candidates) : SameCandidate(result[1], candidates[k])

\* C6: the winner has the maximum score, and among the candidates of maximum
\* score it is the first discovered.
C6_WinnerIsFirstOfMaxScore ==
    (pc = "done" /\ result # None) =>
        \A k \in 1..Len(candidates) :
            \/ CandScore(k) < CandScore(WinnerPos)
            \/ CandScore(k) = CandScore(WinnerPos) /\ WinnerPos <= k

\* three candidates, the last two tied above the first: the second is returned
C6_Witness ==
    /\ pc = "done"
    /\ Len(candidates) = 3
    /\ CandScore(1) < CandScore(2)
    /\ CandScore(2) = CandScore(3)
    /\ WinnerPos = 2

\* the reply a candidate was parsed from
ReplyOf(c) ==
    IF c.source_chunk_idx = FALLBACK_IDX THEN calls[Len(calls)].out[1]
    ELSE calls[c.source_chunk_idx + 1].out[1]

\* the note the parser produced for the winner
WinnerParsedNote == parse_labelled_output(ReplyOf(candidates[WinnerPos]))[1].note

\* positions of the other candidates, by descending score, ties in discovery order
OtherPositions ==
    LET others == {k \in 1..Len(candidates) : k # WinnerPos}
        before(m, k) == CandScore(m) > CandScore(k) \/ (CandScore(m) = CandScore(k) /\ m < k)
    IN  [j \in 1..Cardinality(others) |->
            CHOOSE k \in others : Cardinality({m \in others : before(m, k)}) = j - 1]

RECURSIVE OtherTitlesFrom(_)
\* the titles (or problem[:120]) of the others from the j-th on, joined by "; "
OtherTitlesFrom(j) ==
    LET c == candidates[OtherPositions[j]]
        t == IF c.title # <<>> THEN c.title ELSE Prefix(c.problem, 120)
    IN  IF j = Len(candidates) - 1 THEN t
        ELSE t \o <<";", " ">> \o OtherTitlesFrom(j + 1)

\* the note before truncation
UncutNote ==
    WinnerParsedNote
        \o (IF WinnerParsedNote # <<>> THEN <<";", " ">> ELSE <<>>)
        \o OtherTitlesFrom(1)

\* C7: with more than one candidate the note of the winner is its own note, "; ",
\* and the "; "-joined titles of the others in descending-score order, cut to 200
\* characters; with one candidate the note is the parser's.
C7_NoteSynthesis ==
    (pc = "done" /\ result # None) =>
        IF Len(candidates) > 1
        THEN /\ result[1].note = Prefix(UncutNote, 200)
             /\ Len(result[1].note) <= 200
        ELSE result[1].note = WinnerParsedNote

\* a winner with a note of its own whose synthesized note was cut at 200
C7_Witness ==
    /\ pc = "done"
    /\ Len(candidates) > 1
    /\ WinnerParsedNote # <<>>
    /\ Len(UncutNote) > 200
    /\ Len(result[1].note) = 200
(***************************************************************************)
(* Properties of the parser (specification ParseSpec)                      *)
(***************************************************************************)
\* the lines of the reply as written
RawLines == stripped_lines(reply)

\* the lines the label pass reads: fenced blocks and markup are gone
VisibleLines == stripped_lines(remove_markup(remove_fenced(reply)))

\* positions of the lines that carry the label
Matching(label, lines) == {k \in 1..Len(lines) : match_label(label, lines[k]) # <<>>}

FirstValue(label, lines) ==
    match_label(label, lines[CHOOSE k \in Matching(label, lines) :
                                 \A n \in Matching(label, lines) : k <= n])

LastValue(label, lines) ==
    match_label(label, lines[CHOOSE k \in Matching(label, lines) :
                                 \A n \in Matching(label, lines) : k >= n])

NoFence == FindFrom(FENCE, reply, 1) = 0

\* C8, as stated: of several lines with the same label the first gives the value
\* of the field and the later ones are ignored (replies without fences).
C8_FirstMatchWins ==
    (pc = "parsed" /\ parsed # None /\ NoFence) =>
        /\ Cardinality(Matching(LABEL_TITLE, RawLines)) >= 2 =>
              parsed[1].title = FirstValue(LABEL_TITLE, RawLines)
        /\ Cardinality(Matching(LABEL_AI_SOLUTION, RawLines)) >= 2 =>
              parsed[1].ai_solution = FirstValue(LABEL_AI_SOLUTION, RawLines)

LabelledFields ==
    {<<LABEL_TITLE, "title">>, <<LABEL_PROBLEM, "problem">>,
     <<LABEL_AI_SOLUTION, "ai_solution">>, <<LABEL_CATEGORY, "category">>,
     <<LABEL_INDUSTRY, "industry">>, <<LABEL_NOTE, "note">>}

\* C8, amended: of several lines with the same label (outside fenced blocks) the
\* last gives the value of the field; every earlier one is overwritten.
C8_LastMatchWins ==
    (pc = "parsed" /\ parsed # None) =>
        \A lf \in LabelledFields :
            Matching(lf[1], VisibleLines) # {} =>
                parsed[1][lf[2]] = LastValue(lf[1], VisibleLines)

\* a reply with two different Title lines, parsed to the value of the second
C8_Witness ==
    /\ pc = "parsed"
    /\ parsed # None
    /\ NoFence
    /\ Cardinality(Matching(LABEL_TITLE, RawLines)) >= 2
    /\ FirstValue(LABEL_TITLE, RawLines) # LastValue(LABEL_TITLE, RawLines)
    /\ parsed[1].title = LastValue(LABEL_TITLE, RawLines)

\* the reply is a JSON object on one line
BareJson == reply = LINE_JSON_OBJECT

\* the reply is JSON object lines between an opening fence (with or without the
\* json tag) and a closing fence
FencedJson ==
    LET raw == splitlines(reply)
    IN  /\ Len(raw) >= 3
        /\ raw[1] \in {LINE_FENCE, LINE_FENCE_JSON}
        /\ raw[Len(raw)] = LINE_FENCE
        /\ \A k \in 2..(Len(raw) - 1) : raw[k] = LINE_JSON_OBJECT

VALUE_FOO == <<"F","o","o">>

VALUE_CV == <<"c","v">>

\* C9, as stated: a bare or fenced JSON object with title and ai_solution parses
\* to a candidate that carries the fields of the object.
C9_JsonReplyParsed ==
    (pc = "parsed" /\ (BareJson \/ FencedJson)) =>
        /\ parsed # None
        /\ parsed[1].title = VALUE_FOO
        /\ parsed[1].ai_solution = VALUE_CV

\* C9, amended: the parser has no JSON path; a bare one-line JSON object and a
\* JSON object inside fences both parse to None.
C9_JsonReplyYieldsNothing ==
    (pc = "parsed" /\ (BareJson \/ FencedJson)) => parsed = None

\* a JSON object inside json-tagged fences, parsed to None
C9_Witness ==
    /\ pc = "parsed"
    /\ FencedJson
    /\ splitlines(reply)[1] = LINE_FENCE_JSON
    /\ parsed = None

\* what the passes before the backfill arrive at
BeforeBackfill == infer_title(label_pass(EmptyFields, VisibleLines), VisibleLines)

NoAiSolutionLine == Matching(LABEL_AI_SOLUTION, VisibleLines) = {}

\* positions in KEYWORDS_LOWER of the keywords that occur in the text, lower-cased
KeywordsIn(text) ==
    LET lowered == str_lower(text)
    IN  {k \in 1..Len(KEYWORDS_LOWER) : str_in(KEYWORDS_LOWER[k], lowered)}

\* C10: a title and a non-empty problem without an AI Solution value give a
\* candidate whose ai_solution is the first keyword of the list that occurs in
\* problem (case-insensitive substring), or "unspecified" when none does; with
\* problem empty too the reply parses to None.
C10_Backfill ==
    (pc = "parsed" /\ NoAiSolutionLine) =>
        IF BeforeBackfill.problem # <<>>
        THEN BeforeBackfill.title # <<>> =>
                /\ parsed # None
                /\ parsed[1].title = BeforeBackfill.title
                /\ parsed[1].problem = BeforeBackfill.problem
                /\ LET hits == KeywordsIn(BeforeBackfill.problem)
                   IN  IF hits = {} THEN parsed[1].ai_solution = UNSPECIFIED
                       ELSE \E k \in hits :
                               /\ \A n \in hits : k <= n
                               /\ parsed[1].ai_solution = KEYWORDS_LOWER[k]
        ELSE parsed = None

VALUE_MACHINE_LEARNING == <<"m","a","c","h","i","n","e"," ","l","e","a","r","n","i","n","g">>

\* the reply of the example: Title: Foo, a problem that names two keywords, no
\* AI Solution line; ai_solution is the earlier keyword of the list
C10_Witness ==
    /\ pc = "parsed"
    /\ reply = join_lines(<<LINE_TITLE_FOO, LINE_PROBLEM_ML>>)
    /\ Cardinality(KeywordsIn(BeforeBackfill.problem)) = 2
    /\ parsed # None
    /\ parsed[1].ai_solution = VALUE_MACHINE_LEARNING
\* the skip marker stands on a line of the reply
CarriesSkipMarker == \E k \in 1..Len(RawLines) : RawLines[k] = LINE_SKIP

\* the reply is the skip marker and nothing else, bare or between fences
SkipOnly ==
    reply \in {LINE_SKIP,
               join_lines(<<LINE_FENCE, LINE_SKIP, LINE_FENCE>>),
               join_lines(<<LINE_FENCE_JSON, LINE_SKIP, LINE_FENCE>>)}

\* C11, as stated: every reply that carries the skip marker parses to None.
C11_SkipMarkerYieldsNothing ==
    (pc = "parsed" /\ CarriesSkipMarker) => parsed = None

\* C11, amended: a reply that is exactly the skip marker, bare or inside a code
\* fence, parses to None and adds nothing to a candidate list.
C11_SkipOnlyYieldsNothing ==
    (pc = "parsed" /\ SkipOnly) =>
        /\ parsed = None
        /\ collect(<<>>, Some(reply), 0) = <<>>

\* the bare skip marker, parsed to None
C11_Witness == pc = "parsed" /\ reply = LINE_SKIP /\ parsed = None
(***************************************************************************)
(* Properties of the chunker (specifications ChunkSpec, ChunkLiveSpec)     *)
(***************************************************************************)
\* c is s without its leading and trailing whitespace: s is whitespace, c,
\* whitespace, and c neither begins nor ends with whitespace
IsTrimOf(c, s) ==
    /\ c # <<>> => c[1] \notin WS /\ c[Len(c)] \notin WS
    /\ \E lead \in 0..(Len(s) - Len(c)) :
          /\ \A k \in 1..Len(c) : s[lead + k] = c[k]
          /\ \A k \in 1..Len(s) : (k <= lead \/ k > lead + Len(c)) => s[k] \in WS

\* C12, as stated: a text no longer than chunk_size comes back as the one chunk,
\* unchanged.
C12_ShortTextUnchanged ==
    (pc = "chunked" /\ Len(ck_arg) <= ck_size) => ck_chunks = <<ck_arg>>

\* C12, amended: a text no longer than chunk_size comes back as one chunk, the
\* text without its leading and trailing whitespace (the text itself when it has
\* none).
C12_ShortTextStripped ==
    (pc = "chunked" /\ Len(ck_arg) <= ck_size) =>
        /\ Len(ck_chunks) = 1
        /\ IsTrimOf(ck_chunks[1], ck_arg)
        /\ (ck_arg = <<>> \/ (ck_arg[1] \notin WS /\ ck_arg[Len(ck_arg)] \notin WS))
               => ck_chunks[1] = ck_arg

\* a short text with a leading blank, returned without it
C12_Witness ==
    /\ pc = "chunked"
    /\ Len(ck_arg) <= ck_size
    /\ ck_arg # <<>> /\ ck_arg[1] \in WS
    /\ ck_chunks # <<ck_arg>>
    /\ ck_chunks[1] # <<>>
\* the characters of window w of the stripped text
WindowText(w) == SubSeq(ck_text, w[1] + 1, w[2])

\* the windows cut so far that hold something besides whitespace, in order
KeptWindows == SelectSeq(ck_windows, LAMBDA w : \E k \in (w[1] + 1)..w[2] : ck_text[k] \notin WS)

\* each window starts where the one before it ended, the first at 0
Contiguous ==
    /\ ck_windows # <<>> => ck_windows[1][1] = 0
    /\ \A k \in 1..Len(ck_windows) : ck_windows[k][1] < ck_windows[k][2]
    /\ \A k \in 1..(Len(ck_windows) - 1) : ck_windows[k + 1][1] = ck_windows[k][2]

\* C13: for a text longer than chunk_size the windows are contiguous and do not
\* overlap, the first starts at 0 and the last ends at len(text); the chunks are
\* the windows in text order, each without its outer whitespace, the windows of
\* whitespace only left out.
C13_WindowsPartitionText ==
    (pc \in {"chunk_loop", "chunked"} /\ Len(ck_text) > ck_size) =>
        /\ Contiguous
        /\ ck_windows # <<>> => ck_windows[Len(ck_windows)][2] = ck_start
        /\ ck_start <= Len(ck_text)
        /\ pc = "chunked" =>
              /\ ck_windows # <<>>
              /\ ck_windows[Len(ck_windows)][2] = Len(ck_text)
        /\ Len(ck_chunks) = Len(KeptWindows)
        /\ \A k \in 1..Len(ck_chunks) :
              /\ ck_chunks[k] # <<>>
              /\ IsTrimOf(ck_chunks[k], WindowText(KeptWindows[k]))

\* a finished run with a window of whitespace dropped between two kept ones
C13_Witness ==
    /\ pc = "chunked"
    /\ Len(ck_text) > ck_size
    /\ Len(ck_windows) >= 3
    /\ Len(ck_chunks) >= 2
    /\ Len(ck_chunks) < Len(ck_windows)
    /\ KeptWindows[1] = ck_windows[1]
    /\ KeptWindows[Len(KeptWindows)] = ck_windows[Len(ck_windows)]
\* a sentence end at position p of the stripped text (1-based): a terminal
\* character with whitespace after it
SentenceEndAt(p) ==
    /\ p + 1 <= Len(ck_text)
    /\ ck_text[p] \in SENTENCE_END
    /\ ck_text[p + 1] \in WS

\* where window w would end without the search: chunk_size characters on, or at
\* the end of the text
HardCut(w) == IF w[1] + ck_size < Len(ck_text) THEN w[1] + ck_size ELSE Len(ck_text)

\* the sentence ends the search from the hard cut b can see: both characters lie
\* in the 200 characters after b
SeenFrom(b) == {p \in (b + 1)..(b + BoundaryWindow - 1) : SentenceEndAt(p)}

\* window w ends at the hard cut, or just after the first sentence end seen from it
CutRule(w) ==
    LET b == HardCut(w)
    IN  IF b < Len(ck_text) /\ SeenFrom(b) # {}
        THEN w[2] \in SeenFrom(b) /\ \A p \in SeenFrom(b) : w[2] <= p
        ELSE w[2] = b

C18_Bounded ==
    /\ \A k \in 1..Len(ck_chunks) : Len(ck_chunks[k]) <= ck_size + BoundaryWindow
    /\ \A k \in 1..Len(ck_windows) : CutRule(ck_windows[k])

C18_StartIncreases == (pc = "chunk_loop" /\ ck_windows' # ck_windows) => ck_start' > ck_start

\* C18: for chunk_size >= 1 the run terminates, start grows on every iteration,
\* every chunk is at most chunk_size + 200 long, and a cut lies past the
\* chunk_size boundary only just after the first sentence end found in the next
\* 200 characters, at the boundary otherwise.
C18_TerminatesWithinBound ==
    /\ [](ck_size >= 1 => C18_Bounded)
    /\ [][C18_StartIncreases]_vars
    /\ <>(pc = "chunked")

\* a finished run with a hard cut although a sentence end lies further on, and a
\* chunk that runs to a sentence end 199 characters past the boundary
C18_Witness ==
    /\ pc = "chunked"
    /\ \E k \in 1..Len(ck_windows) :
          /\ ck_windows[k][2] = HardCut(ck_windows[k])
          /\ ck_windows[k][2] < Len(ck_text)
          /\ \E p \in ck_windows[k][2]..Len(ck_text) : SentenceEndAt(p)
    /\ \E k \in 1..Len(ck_windows) :
          ck_windows[k][2] = HardCut(ck_windows[k]) + BoundaryWindow - 1
    /\ \E k \in 1..Len(ck_chunks) : Len(ck_chunks[k]) = ck_size + BoundaryWindow - 1
(***************************************************************************)
(* Properties of main (specifications MainSpec, MainLiveSpec)              *)
(***************************************************************************)
\* C14: whenever the winning record has an empty industry the Industry handed to
\* the sink is "General"; the sink is never sent an empty Industry.
C14_IndustryDefaultsToGeneral ==
    \A k \in 1..Len(sink_log) :
        /\ sink_log[k].payload.Industry # <<>>
        /\ sink_log[k].use_case.industry = <<>> => sink_log[k].payload.Industry = GENERAL
\* the URLs of the entries taken up so far
HandledUrls == {handled[k].url : k \in 1..Len(handled)} \ {<<>>}

\* the inner loop is at an entry whose URL an earlier entry of the run had
AtRepeatedUrl ==
    /\ pc = "main_entries"
    /\ entry_idx < Len(entries_slice(feed))
    /\ entry_now.link \in HandledUrls

Extractions(url) ==
    {k \in 1..Len(handled) :
        handled[k].url = url /\ handled[k].outcome \in {"no_use_case", "posted"}}

C15_OncePerUrl ==
    /\ \A k \in 1..Len(handled) :
          (\E j \in 1..(k - 1) : handled[j].url = handled[k].url) =>
              handled[k].outcome = "skipped"
    /\ \A url \in HandledUrls :
          /\ Cardinality(Extractions(url)) <= 1
          /\ Cardinality({k \in 1..Len(sink_log) : sink_log[k].url = url}) <= 1
          /\ Cardinality({k \in 1..Len(model_log) :
                             model_log[k].url = url /\ model_log[k].model = MODEL_FALLBACK}) <= 1
    /\ \A k \in 1..Len(model_log) : Extractions(model_log[k].url) # {}
    /\ \A k \in 1..Len(sink_log) : Extractions(sink_log[k].url) # {}

C15_RepeatNoCalls == AtRepeatedUrl => UNCHANGED <<model_log, sink_log, seen>>

\* C15: within a run of main an entry whose URL an earlier entry had, in the
\* same feed or in an earlier one, is skipped without a model call and without
\* a sink call; each URL has at most one extraction and at most one sink call.
C15_DuplicateSkipped == []C15_OncePerUrl /\ [][C15_RepeatNoCalls]_vars

\* URL 1 posted from the first feed, then skipped twice: again in that feed and
\* in the next feed
C15_Witness ==
    /\ \E k \in 1..Len(handled) :
          handled[k].feed = 0 /\ handled[k].url = Url(1) /\ handled[k].outcome = "posted"
    /\ \E k \in 1..Len(handled) :
          handled[k].feed = 0 /\ handled[k].url = Url(1) /\ handled[k].outcome = "skipped"
    /\ \E k \in 1..Len(handled) :
          handled[k].feed = 1 /\ handled[k].url = Url(1) /\ handled[k].outcome = "skipped"
    /\ Cardinality({k \in 1..Len(sink_log) : sink_log[k].url = Url(1)}) = 1

\* the entries of feed f (1-based position in FEEDS) that the loop has to take up
EntriesDue(f) ==
    IF fetched[f].raised THEN {}
    ELSE 0..((IF Len(fetched[f].entries) < EntryLimit THEN Len(fetched[f].entries)
              ELSE EntryLimit) - 1)

\* every feed was fetched and each of its first five entries was taken up once,
\* in order, and no other
AllConsidered ==
    /\ Len(fetched) = Len(FEEDS)
    /\ \A f \in 1..Len(FEEDS) : \A e \in EntriesDue(f) :
          Cardinality({k \in 1..Len(handled) :
                          handled[k].feed = f - 1 /\ handled[k].entry = e}) = 1
    /\ \A k \in 1..Len(handled) : handled[k].entry \in EntriesDue(handled[k].feed + 1)
    /\ \A j, k \in 1..Len(handled) :
          j < k => \/ handled[j].feed < handled[k].feed
                   \/ handled[j].feed = handled[k].feed /\ handled[j].entry < handled[k].entry

\* C17: whatever fails on the way (a feed that does not parse, model calls, no
\* use case, a sink call that answers an error or raises), main takes up every
\* one of the first five entries of every feed and reaches Done.
C17_RunCompletes ==
    /\ <>(pc = "main_done")
    /\ [](pc = "main_done" => AllConsidered)

\* a finished run: the first feed did not parse, an extraction gave nothing, a
\* sink call raised and another answered an error, and entries were taken up
\* after each of them
C17_Witness ==
    /\ pc = "main_done"
    /\ fetched[1].raised
    /\ \E k \in 1..(Len(handled) - 1) : handled[k].outcome = "no_use_case"
    /\ sink_log # <<>>
    /\ sink_log[1].printed = "error_posting"
    /\ handled[Len(handled)].url # sink_log[Len(sink_log)].url
    /\ \E k \in 1..Len(model_log) : model_log[k].model = MODEL_FALLBACK
(***************************************************************************)
(* Properties of the score and of the origin tag (specification Spec)      *)
(***************************************************************************)
\* how many keywords of the list occur in the text of each article, computed once
ArticleKeywordCount ==
    tuple_of([a \in 1..MaxArticle |-> Cardinality(KeywordsIn(Articles[a].text))])

\* title, problem and ai_solution of a candidate, joined by single blanks
FieldsJoined(c) == c.title \o <<" ">> \o c.problem \o <<" ">> \o c.ai_solution

\* the part of the score that comes from the candidate itself
OwnScore(c) ==
    3 * Cardinality(KeywordsIn(FieldsJoined(c)))
    + (IF Len(c.title) > 0 THEN 2 ELSE 0)
    + (IF Len(c.ai_solution) > 0 THEN 3 ELSE 0)

\* C16: the score is 3 for every keyword that occurs (case-insensitive substring)
\* in title, problem and ai_solution joined by blanks, 1 for every keyword that
\* occurs in the article text, 2 for a title and 3 for an ai_solution; a valid
\* candidate scores at least 5, and the article's share never changes the order
\* of two candidates.
C16_ScoreFormula ==
    LET scores == tuple_of([k \in 1..Len(candidates) |-> CandScore(k)])
        own    == tuple_of([k \in 1..Len(candidates) |-> OwnScore(candidates[k])])
    IN  \A k \in 1..Len(candidates) :
            /\ scores[k] = own[k] + ArticleKeywordCount[art]
            /\ scores[k] >= 5
            /\ \A j \in 1..Len(candidates) : (scores[j] < scores[k]) <=> (own[j] < own[k])

\* a candidate with two keywords of its own beside one with one keyword, in an
\* article that has keywords too
C16_Witness ==
    /\ Len(candidates) >= 2
    /\ ArticleKeywordCount[art] >= 2
    /\ OwnScore(candidates[1]) = 3 * 2 + 5
    /\ OwnScore(candidates[2]) = 3 * 1 + 5
    /\ CandScore(1) = 11 + ArticleKeywordCount[art]
(***************************************************************************)
(* Fences around a label block (specification ParseSpec)                   *)
(***************************************************************************)
\* the reply is label lines with a fence line before them and one after
IsFencedLabelBlock ==
    LET raw == splitlines(reply)
    IN  /\ Len(raw) >= 3
        /\ raw[1] = LINE_FENCE
        /\ raw[Len(raw)] = LINE_FENCE
        /\ \A k \in 2..(Len(raw) - 1) : \E n \in 1..Len(LabelLines) : raw[k] = LabelLines[n]

\* the lines between the two fence lines
InsideFences == LET raw == splitlines(reply) IN join_lines(SubSeq(raw, 2, Len(raw) - 1))

\* C19: a label block wrapped as a whole in fences parses to what the block
\* parses to without the fences.
C19_FencedBlockParsesAsBlock ==
    (pc = "parsed" /\ IsFencedLabelBlock) => parsed = parse_labelled_output(InsideFences)
(***************************************************************************)
(* The origin tag (specification Spec)                                     *)
(***************************************************************************)
\* the fields the parser gives for the reply of call k
ParsedReply(k) ==
    IF calls[k].out # None /\ calls[k].out[1] # <<>>
    THEN parse_labelled_output(calls[k].out[1]) ELSE None

\* candidate c is what the reply of call k parsed to
ProducedBy(c, k) ==
    /\ ParsedReply(k) # None
    /\ \A f \in {"title", "problem", "ai_solution", "category", "industry", "note"} :
          c[f] = ParsedReply(k)[1][f]

C20_TagsInOrder ==
    /\ \A k \in 1..Len(candidates) :
          LET idx == candidates[k].source_chunk_idx
          IN  \/ /\ idx \in 0..(Len(chunks) - 1)
                 /\ idx < i
                 /\ calls[idx + 1].model = MODEL_PRIMARY
                 /\ ProducedBy(candidates[k], idx + 1)
              \/ /\ idx = -1
                 /\ Len(candidates) = 1
                 /\ calls[Len(calls)].model = MODEL_FALLBACK
                 /\ ProducedBy(candidates[k], Len(calls))
    /\ \A j, k \in 1..Len(candidates) :
          j < k => candidates[j].source_chunk_idx < candidates[k].source_chunk_idx

C20_FallbackResultKeepsNote ==
    (pc = "done" /\ result # None /\ result[1].source_chunk_idx = -1) =>
        result[1].note = ParsedReply(Len(calls))[1].note

C20_SingleChunkScenario ==
    (pc = "done" /\ Len(chunks) = 1 /\ ParsedReply(1) # None) =>
        /\ result # None
        /\ result[1].source_chunk_idx = 0
        /\ ParsedReply(1)[1].note = <<>> => result[1].note = <<>>

\* C20: a candidate of the primary model carries the index of the chunk whose
\* reply produced it, there is at most one candidate per chunk index and the
\* candidates are in increasing order of it; a candidate tagged -1 is the only
\* candidate, so a result tagged -1 has no synthesized note; a one-chunk article
\* with a well-formed primary reply without Note line ends with tag 0 and an
\* empty note.
C20_OriginTag == C20_TagsInOrder /\ C20_FallbackResultKeepsNote /\ C20_SingleChunkScenario

\* three chunks, the reply to the first gave nothing, the replies to the other
\* two gave the candidates tagged 1 and 2
C20_Witness ==
    /\ pc = "done"
    /\ Len(chunks) = 3
    /\ ParsedReply(1) = None
    /\ Len(candidates) = 2
    /\ candidates[1].source_chunk_idx = 1
    /\ candidates[2].source_chunk_idx = 2
    /\ result[1].source_chunk_idx \in {1, 2}
====
